---- MODULE Spec2Model ----
(***************************************************************************)
(* Model of .github/scripts/build_review_payload.py: the batch pipeline    *)
(* that turns a run directory (sidecar review/index.json, or per-agent     *)
(* records under instances/) into one review payload on stdout.            *)
(*                                                                         *)
(* Text is modelled at the granularity the pipeline logic reads it:        *)
(*   - a title, a description, a suggestion, a validator message given by  *)
(*     its text, and a JSON string standing where a number is expected, is *)
(*     a sequence of one-character strings, so that key normalisation,     *)
(*     int(), the regular expressions of the parser and the link rewriting *)
(*     are computed and not assumed;                                       *)
(*   - a validator message may also be given as the sequence of its        *)
(*     heading blocks (severity as written, title, and what the Location   *)
(*     line yielded), plus its fenced JSON trailer;                        *)
(*   - summary texts carry no location reference, so link rewriting leaves *)
(*     them as they are.                                                   *)
(*                                                                         *)
(* Spec is main(); SpecLinks is _absolutize_location_links applied to a    *)
(* text and then to its own result.                                        *)
(***************************************************************************)
EXTENDS Integers, Sequences, FiniteSets, TLC

VARIABLES
    sidecar,                    \* review/index.json as found on disk
    instances,                  \* the files instances/**/*.json, in rglob order
    files,                      \* workspace file -> line count, NotFile when not readable
    cfg,                        \* parsed command line
    pc,                         \* position in main()
    read_instances,             \* _iter_instance_jsons has been called
    n_parse_calls,              \* calls of _parse_findings so far
    composer_body,
    composer_metrics,
    validator_messages,
    validator_trailer_findings,
    selected_ids,
    body,
    findings,                   \* parsed findings of all validator messages
    selected,                   \* the strategy's list, before the cap
    base_list,                  \* the list after the cap
    comments,
    out,                        \* JSON objects written to stdout
    exit_code,
    link_input,                 \* SpecLinks: the text handed to the link rewriting
    rewritten                   \* SpecLinks: the results of its successive passes

vars == <<sidecar, instances, files, cfg, pc, read_instances, n_parse_calls,
          composer_body, composer_metrics, validator_messages,
          validator_trailer_findings, selected_ids, body, findings, selected,
          base_list, comments, out, exit_code, link_input, rewritten>>

inputs == <<sidecar, instances, files, cfg>>

links == <<link_input, rewritten>>

-----------------------------------------------------------------------------
(* Bounds of the explored inputs *)

MaxBlocks == 2          \* heading blocks per validator message
MaxItems == 2           \* selected_details of a sidecar
MaxIds == 2             \* selected_ids of a composer
MaxRecords == 2         \* per-agent records in the source-location inputs
MaxFileLines == 2       \* line count of a readable workspace file
MaxLine == 3            \* line numbers in locations
ScenarioDCount == 50    \* findings of the 50-over-40 scenario

(* Program constants *)

DefaultMaxComments == 40
NotFile == -1           \* is_file() false, or open() raises
None == "<None>"        \* Python None where a string may stand

-----------------------------------------------------------------------------
(* Sequences *)

Min(a, b) == IF a < b THEN a ELSE b
Max(a, b) == IF a > b THEN a ELSE b

SeqsUpTo(S, n) == UNION {[1..k -> S] : k \in 0..n}

\* s[:n] for n >= 0
Take(s, n) == SubSeq(s, 1, Min(n, Len(s)))

RECURSIVE Flatten(_)
Flatten(ss) == IF ss = <<>> THEN <<>> ELSE Head(ss) \o Flatten(Tail(ss))

RECURSIVE IsSubseq(_, _)
\* a can be obtained from b by deleting entries
IsSubseq(a, b) ==
    IF a = <<>> THEN TRUE
    ELSE IF b = <<>> THEN FALSE
    ELSE IF Head(a) = Head(b) THEN IsSubseq(Tail(a), Tail(b))
    ELSE IsSubseq(a, Tail(b))

-----------------------------------------------------------------------------
(* Characters: str.lower(), \W, str.strip(), int() *)

UpperCase == <<"A","B","C","D","E","F","G","H","I","J","K","L","M",
               "N","O","P","Q","R","S","T","U","V","W","X","Y","Z">>
LowerCase == <<"a","b","c","d","e","f","g","h","i","j","k","l","m",
               "n","o","p","q","r","s","t","u","v","w","x","y","z">>
Digits == <<"0","1","2","3","4","5","6","7","8","9">>

Range(s) == {s[i] : i \in DOMAIN s}

LastIndex(S) == CHOOSE i \in S : \A j \in S : j <= i
FirstIndex(S) == CHOOSE i \in S : \A j \in S : i <= j

LowerChar(c) ==
    IF c \in Range(UpperCase)
    THEN LowerCase[CHOOSE i \in DOMAIN UpperCase : UpperCase[i] = c]
    ELSE c

IsWordChar(c) == c \in Range(UpperCase) \cup Range(LowerCase) \cup Range(Digits) \cup {"_"}

IsSpace(c) == c \in {" ", "\t", "\n", "\r"}

RECURSIVE DropNonWord(_)
DropNonWord(t) ==
    IF t = <<>> \/ IsWordChar(Head(t)) THEN t ELSE DropNonWord(Tail(t))

RECURSIVE CollapseNonWord(_)
\* re.sub(r"\W+", " ", t)
CollapseNonWord(t) ==
    IF t = <<>> THEN <<>>
    ELSE IF IsWordChar(Head(t)) THEN <<Head(t)>> \o CollapseNonWord(Tail(t))
    ELSE <<" ">> \o CollapseNonWord(DropNonWord(Tail(t)))

RECURSIVE LStrip(_)
LStrip(t) == IF t # <<>> /\ IsSpace(Head(t)) THEN LStrip(Tail(t)) ELSE t

RECURSIVE RStrip(_)
RStrip(t) ==
    IF t # <<>> /\ IsSpace(t[Len(t)]) THEN RStrip(SubSeq(t, 1, Len(t) - 1)) ELSE t

Strip(t) == RStrip(LStrip(t))

LowerStr(t) == [i \in DOMAIN t |-> LowerChar(t[i])]

DigitValue(c) == (CHOOSE i \in DOMAIN Digits : Digits[i] = c) - 1

RECURSIVE DecimalValue(_)
DecimalValue(t) ==
    IF t = <<>> THEN 0
    ELSE 10 * DecimalValue(SubSeq(t, 1, Len(t) - 1)) + DigitValue(t[Len(t)])

\* int(s) of a string: surrounding whitespace is allowed, anything but digits raises
IsDecimal(t) == Strip(t) # <<>> /\ \A i \in DOMAIN Strip(t) : Strip(t)[i] \in Range(Digits)

-----------------------------------------------------------------------------
(* Text: a str is the sequence of its characters *)

Chars(s) == [i \in 1..Len(s) |-> SubSeq(s, i, i)]

RECURSIVE Str(_)
\* the string of a sequence of characters
Str(t) == IF t = <<>> THEN "" ELSE Head(t) \o Str(Tail(t))

\* t[i - 1:], i counted from 1
From(t, i) == SubSeq(t, i, Len(t))

\* t[i - 1:].startswith(p)
StartsAt(t, i, p) == i + Len(p) - 1 <= Len(t) /\ SubSeq(t, i, i + Len(p) - 1) = p

StartsWith(t, p) == StartsAt(t, 1, p)

EndsWith(t, p) == Len(p) <= Len(t) /\ From(t, Len(t) - Len(p) + 1) = p

\* the set of positions from i on where p occurs
Occurrences(t, i, p) == {k \in i..Len(t) : StartsAt(t, k, p)}

\* str.find from position i: 0 when p does not occur
Find(t, i, p) ==
    IF Occurrences(t, i, p) = {} THEN 0
    ELSE CHOOSE k \in Occurrences(t, i, p) : \A j \in Occurrences(t, i, p) : k <= j

\* the position after the longest run from i of characters satisfying Test
RunEnd(t, i, Test(_)) ==
    LET stops == {k \in i..Len(t) : ~Test(t[k])}
    IN  IF stops = {} THEN Max(i, Len(t) + 1)
        ELSE CHOOSE k \in stops : \A j \in stops : k <= j

IsDigit(c) == c \in Range(Digits)

IsLetter(c) == c \in Range(UpperCase) \cup Range(LowerCase)

RECURSIVE JoinLines(_)
\* "\n".join(lines)
JoinLines(lines) ==
    IF lines = <<>> THEN <<>>
    ELSE IF Len(lines) = 1 THEN lines[1]
    ELSE lines[1] \o <<"\n">> \o JoinLines(Tail(lines))

RECURSIVE SplitLines(_)
\* str.splitlines(): a line ends at \n, \r\n or \r; a final terminator opens no line
SplitLines(t) ==
    IF t = <<>> THEN <<>>
    ELSE LET e == RunEnd(t, 1, LAMBDA c : c \notin {"\n", "\r"})
             skip == IF StartsAt(t, e, <<"\r", "\n">>) THEN 2 ELSE 1
         IN  <<SubSeq(t, 1, e - 1)>> \o SplitLines(From(t, e + skip))

RECURSIVE RStripNewlines(_)
\* str.rstrip("\n")
RStripNewlines(t) ==
    IF t # <<>> /\ t[Len(t)] = "\n" THEN RStripNewlines(SubSeq(t, 1, Len(t) - 1)) ELSE t

-----------------------------------------------------------------------------
(* Link rewriting: _absolutize_location_links *)

style_rel == Chars("contribute/style-guide-extended.mdx")

PlainAnchor == Chars("?plain=1#L")

BlobPrefix(repo) == Chars("https://github.com/") \o repo \o Chars("/blob/")

DocBlobPrefix(repo, sha) == BlobPrefix(repo) \o (IF sha = <<>> THEN Chars("main") ELSE sha) \o <<"/">>

StyleBlobPrefix(repo) == BlobPrefix(repo) \o Chars("main/")

\* str.lstrip("./")
LStripDotSlash(t) == From(t, RunEnd(t, 1, LAMBDA c : c \in {".", "/"}))

\* str.lstrip()
LStripSpace(t) == From(t, RunEnd(t, 1, IsSpace))

IsAbsolute(t) == StartsWith(t, Chars("http://")) \/ StartsWith(t, Chars("https://"))

\* the base a relative path is resolved against
BaseOf(path, repo, sha) ==
    IF StartsWith(path, style_rel) THEN StyleBlobPrefix(repo) ELSE DocBlobPrefix(repo, sha)

absolutize_path(path, repo, sha) ==
    IF IsAbsolute(path) THEN path
    ELSE BaseOf(LStripDotSlash(path), repo, sha) \o LStripDotSlash(path)

\* step 1 on one line: a Location line gets its link made absolute
FixLocationLine(line, repo, sha) ==
    LET stripped == LStripSpace(line)
        indent == [i \in 1..(Len(line) - Len(stripped)) |-> " "]
        colon == Find(stripped, 1, <<":">>)
        link == Strip(From(stripped, colon + 1))
    IN  IF /\ \E marker \in {Chars("- Location:"), Chars("Location:"), Chars("* Location:")} :
                 StartsWith(stripped, marker)
           /\ link # <<>>
        THEN indent \o SubSeq(stripped, 1, colon - 1) \o Chars(": ")
                \o absolutize_path(link, repo, sha)
        ELSE line

FixLocationLines(text, repo, sha) ==
    LET lines == SplitLines(text)
    IN  JoinLines([i \in DOMAIN lines |-> FixLocationLine(lines[i], repo, sha)])

IsRefChar(c) == IsLetter(c) \/ IsDigit(c) \/ c \in {"_", ".", "/", "-"}

\* [A-Za-z0-9_./\-]+\.(?:md|mdx|json) matches the whole of p
IsRefPath(p) ==
    \E ext \in {Chars(".md"), Chars(".mdx"), Chars(".json")} :
        EndsWith(p, ext) /\ Len(p) > Len(ext)

\* the position after L\d+(?:-L\d+)? for the anchor at position e
AnchorEnd(t, e) ==
    LET d == RunEnd(t, e + 10, IsDigit)
        d2 == RunEnd(t, d + 2, IsDigit)
    IN  IF StartsAt(t, d, Chars("-L")) /\ d2 > d + 2 THEN d2 ELSE d

\* the leftmost match of the generic pattern that ends in the anchor at position e and
\* starts at pos or later: with a scheme in front when there is one, else from the start
\* of the run of path characters
GenericMatch(t, pos, e) ==
    LET breaks == {k \in pos..(e - 1) : ~IsRefChar(t[k])}
        r0 == IF breaks = {} THEN pos ELSE (CHOOSE k \in breaks : \A m \in breaks : m <= k) + 1
        https == r0 - 6 >= pos /\ StartsAt(t, r0 - 6, Chars("https://"))
        http == r0 - 5 >= pos /\ StartsAt(t, r0 - 5, Chars("http://"))
        scheme == (https \/ http) /\ r0 + 2 <= e /\ IsRefPath(SubSeq(t, r0 + 2, e - 1))
        none == [matched |-> FALSE, start |-> 0, path |-> 0, scheme |-> FALSE]
    IN  IF ~(StartsAt(t, e, PlainAnchor) /\ AnchorEnd(t, e) > e + 10) THEN none
        ELSE IF scheme
        THEN [matched |-> TRUE, start |-> IF https THEN r0 - 6 ELSE r0 - 5,
              path |-> r0 + 2, scheme |-> TRUE]
        ELSE IF r0 <= e - 1 /\ IsRefPath(SubSeq(t, r0, e - 1))
        THEN [matched |-> TRUE, start |-> r0, path |-> r0, scheme |-> FALSE]
        ELSE none

RECURSIVE GenericSub(_, _, _, _)
\* step 2: generic_pattern.sub(repl, t), from position pos on
GenericSub(t, pos, repo, sha) ==
    LET anchors == {e \in Occurrences(t, pos, PlainAnchor) : GenericMatch(t, pos, e).matched}
    IN  IF anchors = {} THEN From(t, pos)
        ELSE LET e == CHOOSE k \in anchors : \A m \in anchors : k <= m
                 gm == GenericMatch(t, pos, e)
                 p == LStripDotSlash(SubSeq(t, gm.path, e - 1))
             IN  SubSeq(t, pos, gm.start - 1)
                    \o (IF gm.scheme THEN SubSeq(t, gm.start, AnchorEnd(t, e) - 1)
                        ELSE BaseOf(p, repo, sha) \o p \o SubSeq(t, e, AnchorEnd(t, e) - 1))
                    \o GenericSub(t, AnchorEnd(t, e), repo, sha)

\* style_pattern matches at position i
StyleMatch(t, i) ==
    /\ StartsAt(t, i, style_rel \o PlainAnchor)
    /\ AnchorEnd(t, i + Len(style_rel)) > i + Len(style_rel) + 10

RECURSIVE ReplaceStyleFrom(_, _, _)
\* step 3: replace_style_links, from position pos on
ReplaceStyleFrom(t, pos, repo) ==
    LET starts == {i \in Occurrences(t, pos, style_rel) : StyleMatch(t, i)}
    IN  IF starts = {} THEN From(t, pos)
        ELSE LET i == CHOOSE k \in starts : \A m \in starts : k <= m
                 end == AnchorEnd(t, i + Len(style_rel))
                 prefixed == SubSeq(t, Max(1, i - Len(StyleBlobPrefix(repo))), i - 1)
                                = StyleBlobPrefix(repo)
             IN  SubSeq(t, pos, i - 1)
                    \o (IF prefixed THEN <<>> ELSE StyleBlobPrefix(repo))
                    \o SubSeq(t, i, end - 1)
                    \o ReplaceStyleFrom(t, end, repo)

replace_style_links(text, repo) == ReplaceStyleFrom(text, 1, repo)

\* the match of blob_prefix([^/]+)/([^\s)]+) at position i
DocMatch(t, i, repo) ==
    LET b == i + Len(BlobPrefix(repo))
        slash == Find(t, b, <<"/">>)
        end == RunEnd(t, slash + 1, LAMBDA c : ~IsSpace(c) /\ c # ")")
    IN  IF StartsAt(t, i, BlobPrefix(repo)) /\ slash > b /\ end > slash + 1
        THEN [matched |-> TRUE, base |-> SubSeq(t, b, slash - 1),
              remainder |-> SubSeq(t, slash + 1, end - 1), end |-> end]
        ELSE [matched |-> FALSE, base |-> <<>>, remainder |-> <<>>, end |-> 0]

\* fix_doc: the revision a blob URL is to have
fix_doc(m, repo, sha) ==
    LET target == IF StartsWith(m.remainder, style_rel) THEN Chars("main") ELSE sha
    IN  BlobPrefix(repo) \o target \o <<"/">> \o m.remainder

RECURSIVE FixDocFrom(_, _, _, _)
\* step 4: doc_prefix_regex.sub(fix_doc, t), from position pos on
FixDocFrom(t, pos, repo, sha) ==
    LET starts == {i \in Occurrences(t, pos, BlobPrefix(repo)) : DocMatch(t, i, repo).matched}
    IN  IF starts = {} THEN From(t, pos)
        ELSE LET i == CHOOSE k \in starts : \A m \in starts : k <= m
                 dm == DocMatch(t, i, repo)
             IN  SubSeq(t, pos, i - 1) \o fix_doc(dm, repo, sha)
                    \o FixDocFrom(t, dm.end, repo, sha)

\* rewrite_review_links.py: stdin text, GITHUB_REPOSITORY and PR_HEAD_SHA, empty when unset;
\* Location lines, style-guide references and blob URLs, with no pass over other references
RewriteReviewLinks(text, repo, sha) ==
    IF text = <<>> \/ repo = <<>> THEN text
    ELSE LET located == FixLocationLines(text, repo, sha)
             styled == replace_style_links(located, repo)
         IN  IF sha # <<>> THEN FixDocFrom(styled, 1, repo, sha) ELSE styled

\* mutant: text is returned as it came
AbsolutizeLocationLinks_Identity(text, repo, sha) == text

\* _absolutize_location_links(body, repo, sha): repo and sha empty for None
AbsolutizeLocationLinks(text, repo, sha) ==
    IF text = <<>> \/ repo = <<>> THEN text
    ELSE LET located == FixLocationLines(text, repo, sha)
             generic == GenericSub(located, 1, repo, sha)
             styled == replace_style_links(generic, repo)
         IN  IF sha # <<>> THEN FixDocFrom(styled, 1, repo, sha) ELSE styled

-----------------------------------------------------------------------------
(* JSON values standing where the code expects a number *)

JNull == [t |-> "null", n |-> 0, s |-> <<>>]
JInt(n) == [t |-> "int", n |-> n, s |-> <<>>]
JStr(s) == [t |-> "str", n |-> 0, s |-> s]

\* int(v or 0) raises ValueError
IntOr0Raises(v) == v.t = "str" /\ v.s # <<>> /\ ~IsDecimal(v.s)

\* int(v or 0)
IntOr0(v) ==
    IF v.t = "int" THEN v.n
    ELSE IF v.t = "str" /\ v.s # <<>> /\ IsDecimal(v.s) THEN DecimalValue(Strip(v.s))
    ELSE 0

-----------------------------------------------------------------------------
(* Findings *)

Severities == {"HIGH", "MEDIUM", "LOW"}

\* str.upper() on the severity spellings that occur
UpperSev(s) ==
    CASE s \in {"HIGH", "high", "High"} -> "HIGH"
      [] s \in {"MEDIUM", "medium"} -> "MEDIUM"
      [] s \in {"LOW", "low"} -> "LOW"
      [] OTHER -> s

\* suggestion_replacement: None, or a text
NoReplacement == [is_none |-> TRUE, text |-> <<>>]
Replacement(text) == [is_none |-> FALSE, text |-> text]

\* a Finding with no description and no suggestion
Finding(sev, title, path, start, end, uid) ==
    [severity |-> sev, title |-> title, path |-> path,
     start |-> start, end |-> end, uid |-> uid,
     desc |-> <<>>, suggestion_raw |-> <<>>, suggestion_replacement |-> NoReplacement]

\* Finding.key(): the title with runs of non-word characters collapsed, stripped, lowercased
NormTitle(title) == LowerStr(Strip(CollapseNonWord(title)))

Key(f) == <<f.path, f.start, f.end, NormTitle(f.title)>>

-----------------------------------------------------------------------------
(* Validator markdown: headings, Location lines, fenced blocks *)

\* the backquote, taken from a two-character string: a string cannot hold it alone
Backquote == SubSeq("`'", 1, 1)

Fence == <<Backquote, Backquote, Backquote>>
NewlineFence == <<"\n">> \o Fence
JsonFence == Fence \o Chars("json")

\* the heading whose severity word is sev and whose title starts after position word
HeadingOf(line, word, sev) ==
    IF sev \in {Chars("high"), Chars("medium"), Chars("low")}
    THEN [matched |-> TRUE,
          severity |-> IF sev = Chars("high") THEN "HIGH"
                       ELSE IF sev = Chars("medium") THEN "MEDIUM" ELSE "LOW",
          title |-> Strip(From(line, word + 1))]
    ELSE [matched |-> FALSE, severity |-> "", title |-> <<>>]

\* the severity word runs from a + 1 to word - 1, between [ and ]
HeadingWord(line, a, word) ==
    IF /\ StartsWith(line, Chars("###"))
       /\ StartsAt(line, a, <<"[">>)
       /\ StartsAt(line, word, <<"]">>)
       /\ word + 1 <= Len(line)
    THEN HeadingOf(line, word, LowerStr(SubSeq(line, a + 1, word - 1)))
    ELSE [matched |-> FALSE, severity |-> "", title |-> <<>>]

HeadingBracket(line, a) == HeadingWord(line, a, RunEnd(line, a + 1, IsLetter))

\* _H_RE.match(line): ###, [severity], then a title of at least one character
HeadingMatch(line) == HeadingBracket(line, RunEnd(line, 4, IsSpace))

IsPathChar(c) == ~IsSpace(c) /\ c \notin {"?", "#"}

NoLocMatch == [matched |-> FALSE, path |-> <<>>, start |-> 0, end |-> 0]

LocFound(path, first, last) ==
    [matched |-> TRUE, path |-> path, start |-> DecimalValue(first),
     end |-> DecimalValue(last)]

\* -L at de, then digits up to ee - 1, which end the line
LocEnd(line, a, pe, q, de, ee) ==
    IF ee > de + 2 /\ ee = Len(line) + 1
    THEN LocFound(SubSeq(line, a, pe - 1), SubSeq(line, q + 2, de - 1),
                  SubSeq(line, de + 2, ee - 1))
    ELSE NoLocMatch

\* #L at q, then digits up to de - 1; the end is the start when no -L follows
LocStart(line, low, a, pe, q, de) ==
    IF de <= q + 2 THEN NoLocMatch
    ELSE IF StartsAt(low, de, Chars("-l"))
         THEN LocEnd(line, a, pe, q, de, RunEnd(line, de + 2, IsDigit))
    ELSE IF de = Len(line) + 1
         THEN LocFound(SubSeq(line, a, pe - 1), SubSeq(line, q + 2, de - 1),
                       SubSeq(line, q + 2, de - 1))
    ELSE NoLocMatch

LocAnchor(line, low, a, pe, q) ==
    IF StartsAt(low, q, Chars("#l"))
    THEN LocStart(line, low, a, pe, q, RunEnd(line, q + 2, IsDigit))
    ELSE NoLocMatch

\* the path runs from a to pe - 1; ?plain=1 may follow it
LocPath(line, low, a, pe) ==
    IF pe > a
    THEN LocAnchor(line, low, a, pe,
                   IF StartsAt(low, pe, Chars("?plain=1")) THEN pe + 8 ELSE pe)
    ELSE NoLocMatch

LocLabel(line, low, a) == LocPath(line, low, a, RunEnd(line, a, IsPathChar))

\* _LOC_RE.match(line) on a stripped line: path, optional ?plain=1, #Lstart, optional -Lend
LocMatch(line) ==
    IF StartsWith(LowerStr(line), Chars("location:"))
    THEN LocLabel(line, LowerStr(line), RunEnd(line, 10, IsSpace))
    ELSE NoLocMatch

\* line.strip().lower().startswith(label)
HasLabel(line, label) == StartsWith(LowerStr(Strip(line)), label)

\* mutant: the first location that matches is kept
Located_FirstWins(st, lm) ==
    IF lm.matched /\ st.path = <<>>
    THEN [st EXCEPT !.section = "location", !.path = lm.path,
                    !.start = lm.start, !.end = lm.end]
    ELSE [st EXCEPT !.section = "location"]

\* a Location line: the location is taken when the line matches
Located(st, lm) ==
    IF lm.matched
    THEN [st EXCEPT !.section = "location", !.path = lm.path,
                    !.start = lm.start, !.end = lm.end]
    ELSE [st EXCEPT !.section = "location"]

\* mutant: a line without a label goes to the description, whatever section is open
ScanLine_AllToDesc(st, line) ==
    IF HasLabel(line, Chars("location:")) THEN Located(st, LocMatch(Strip(line)))
    ELSE IF HasLabel(line, Chars("description:")) THEN [st EXCEPT !.section = "desc"]
    ELSE IF HasLabel(line, Chars("suggestion:")) THEN [st EXCEPT !.section = "sugg"]
    ELSE [st EXCEPT !.desc_lines = Append(@, line)]

\* one step of the scan of a heading's lines
ScanLine(st, line) ==
    IF HasLabel(line, Chars("location:")) THEN Located(st, LocMatch(Strip(line)))
    ELSE IF HasLabel(line, Chars("description:")) THEN [st EXCEPT !.section = "desc"]
    ELSE IF HasLabel(line, Chars("suggestion:")) THEN [st EXCEPT !.section = "sugg"]
    ELSE IF st.section = "desc" THEN [st EXCEPT !.desc_lines = Append(@, line)]
    ELSE IF st.section = "sugg" THEN [st EXCEPT !.sugg_lines = Append(@, line)]
    ELSE st

RECURSIVE ScanLines(_, _)
ScanLines(st, lines) ==
    IF lines = <<>> THEN st ELSE ScanLines(ScanLine(st, Head(lines)), Tail(lines))

NoScan ==
    [section |-> "none", path |-> <<>>, start |-> 0, end |-> 0,
     desc_lines |-> <<>>, sugg_lines |-> <<>>]

\* the block of a heading h and of the scan st of the lines under it
BlockOf(h, st) ==
    [severity |-> h.severity, title |-> h.title, path |-> Str(st.path),
     start |-> st.start, end |-> st.end,
     desc |-> Strip(JoinLines(st.desc_lines)),
     sugg |-> Strip(JoinLines(st.sugg_lines))]

\* the block of the heading at line i, the next heading being at line j
ScanBlock(lines, i, j) ==
    BlockOf(HeadingMatch(lines[i]), ScanLines(NoScan, SubSeq(lines, i + 1, j - 1)))

\* the lines that are headings
HeadingLines(lines) == {k \in DOMAIN lines : HeadingMatch(lines[k]).matched}

\* the first heading after line i: the line after the last one when there is none
NextHeading(heads, i, n) ==
    IF {k \in heads : k > i} = {} THEN n + 1 ELSE FirstIndex({k \in heads : k > i})

RECURSIVE ScanFrom(_, _, _)
\* the blocks of the headings from line i on
ScanFrom(lines, heads, i) ==
    IF i > Len(lines) THEN <<>>
    ELSE IF i \notin heads THEN ScanFrom(lines, heads, i + 1)
    ELSE <<ScanBlock(lines, i, NextHeading(heads, i, Len(lines)))>>
            \o ScanFrom(lines, heads, NextHeading(heads, i, Len(lines)))

ScanAll(lines) == ScanFrom(lines, HeadingLines(lines), 1)

\* the heading blocks of a markdown text
ScanBlocks(md) == ScanAll(SplitLines(md))

\* the last of the line breaks in the whitespace after a closing fence: 0 when there is none
BreakEnd(breaks) == IF breaks = {} THEN 0 ELSE LastIndex(breaks)

\* the whitespace after the closing fence at b, running to v, ends the text or goes back to a line break
TailEnd(t, b, v) ==
    IF v = Len(t) + 1 THEN v
    ELSE BreakEnd({k \in (b + 3)..(v - 1) : t[k] = "\n"})

AfterFence(t, b) ==
    IF ~StartsAt(t, b, Fence) THEN 0 ELSE TailEnd(t, b, RunEnd(t, b + 3, IsSpace))

\* where the text after a closing fence sought from position p closes a trailer match: 0 for no match. After
\* the fence whitespace runs to the end of the text, or back to its last line break
TrailerTail(t, p) == AfterFence(t, RunEnd(t, p, IsSpace))

\* the lazy object body ends at the first closing brace that a closing fence follows
TrailerClose(t, closes) ==
    IF closes = {} THEN 0 ELSE TrailerTail(t, FirstIndex(closes) + 1)

TrailerObject(t, a) ==
    IF ~StartsAt(t, a, <<"{">>) THEN 0
    ELSE TrailerClose(t, {k \in (a + 1)..Len(t) : t[k] = "}" /\ TrailerTail(t, k + 1) # 0})

\* the end of the match of _TRAILER_JSON_RE at position i: 0 for no match
TrailerMatchEnd(t, i) ==
    IF ~(i + 6 <= Len(t) /\ LowerStr(SubSeq(t, i, i + 6)) = JsonFence) THEN 0
    ELSE TrailerObject(t, RunEnd(t, i + 7, IsSpace))

RECURSIVE TrailerJsonSub(_, _)
CutTrailerAt(t, pos, i) == SubSeq(t, pos, i - 1) \o TrailerJsonSub(t, TrailerMatchEnd(t, i))

CutTrailers(t, pos, starts) ==
    IF starts = {} THEN From(t, pos) ELSE CutTrailerAt(t, pos, FirstIndex(starts))

\* _TRAILER_JSON_RE.sub("", t), from position pos on
TrailerJsonSub(t, pos) ==
    CutTrailers(t, pos, {i \in Occurrences(t, pos, Fence) : TrailerMatchEnd(t, i) # 0})

StripTrailingJsonTrailer(t) == RStrip(TrailerJsonSub(t, 1))

IsLangChar(c) == IsLetter(c) \/ IsDigit(c) \/ c \in {"_", "-"}

NoFencedMatch == [matched |-> FALSE, lang |-> <<>>, content |-> <<>>, end |-> 0]

FencedContent(t, i, le, n, close) ==
    [matched |-> TRUE, lang |-> LowerStr(SubSeq(t, i + 3, le - 1)),
     content |-> SubSeq(t, n + 1, close - 1), end |-> close + 4]

\* \s*\n is greedy: the content starts after the last line break of the whitespace that lets a fence close
FencedOpen(t, i, le, opens) ==
    IF opens = {} THEN NoFencedMatch
    ELSE FencedContent(t, i, le, LastIndex(opens), Find(t, LastIndex(opens) + 1, NewlineFence))

FencedTag(t, i, le) ==
    FencedOpen(t, i, le, {n \in le..(RunEnd(t, le, IsSpace) - 1) :
                              t[n] = "\n" /\ Find(t, n + 1, NewlineFence) # 0})

\* the match of a fence, a language tag, \s*\n, a content and \n before a fence, at i
FencedMatch(t, i) ==
    IF ~StartsAt(t, i, Fence) THEN NoFencedMatch
    ELSE FencedTag(t, i, RunEnd(t, i + 3, IsLangChar))

\* the fence positions from pos on where a fenced block matches
FencedStarts(t, pos) == {i \in Occurrences(t, pos, Fence) : FencedMatch(t, i).matched}

FirstFenced(t, starts) ==
    IF starts = {} THEN NoFencedMatch ELSE FencedMatch(t, FirstIndex(starts))

\* _extract_first_code_block: the leftmost fenced block
ExtractFirstCodeBlock(t) == FirstFenced(t, FencedStarts(t, 1))

RECURSIVE FencedBlockSub(_, _)
CutFencedAt(t, pos, i) == SubSeq(t, pos, i - 1) \o FencedBlockSub(t, FencedMatch(t, i).end)

CutFenced(t, pos, starts) ==
    IF starts = {} THEN From(t, pos) ELSE CutFencedAt(t, pos, FirstIndex(starts))

\* _FENCED_BLOCK_RE.sub("", t), from position pos on
FencedBlockSub(t, pos) == CutFenced(t, pos, FencedStarts(t, pos))

\* mutant: the block of any tag gives the replacement
ReplacementOf_AnyTag(cb) ==
    IF cb.matched /\ cb.content # <<>> THEN Replacement(cb.content) ELSE NoReplacement

ReplacementOf(cb) ==
    IF cb.matched /\ cb.content # <<>> /\ cb.lang \notin {Chars("diff"), Chars("patch")}
    THEN Replacement(cb.content)
    ELSE NoReplacement

\* the replacement derived from the first fenced block that is no diff or patch
DeriveReplacement(sugg_raw) == ReplacementOf(ExtractFirstCodeBlock(sugg_raw))

\* mutant: a block is kept as soon as its Location gave a path
BlockUsable_PathOnly(b) == b.path # ""

\* a heading block whose Location yields a path, start > 0 and end >= start
BlockUsable(b) == b.path # "" /\ b.start > 0 /\ b.end >= b.start

\* the finding of a block, sugg_raw being its suggestion text without the JSON trailer
FindingOf(b, sugg_raw) ==
    [Finding(UpperSev(b.severity), b.title, b.path, b.start, b.end, None)
        EXCEPT !.desc = b.desc, !.suggestion_raw = sugg_raw,
               !.suggestion_replacement = DeriveReplacement(sugg_raw)]

BlockFinding(b) == FindingOf(b, StripTrailingJsonTrailer(b.sugg))

FindingsOf(blocks) == [i \in DOMAIN blocks |-> BlockFinding(blocks[i])]

\* _parse_findings on a message: malformed blocks are skipped
ParseFindings(msg) ==
    FindingsOf(SelectSeq(IF msg.md # <<>> THEN ScanBlocks(msg.md) ELSE msg.blocks, BlockUsable))

\* _parse_trailer_findings: the entries of a trailer that parses, else nothing
ParseTrailerFindings(msg) == IF msg.trailer_kind = "ok" THEN msg.trailer ELSE <<>>

\* the final-message text ends with a fenced JSON object
EndsWithJsonTrailer(msg) == msg.trailer_kind # "none"

-----------------------------------------------------------------------------
(* Per-agent records *)

\* mutant: the role under metadata.pr_review is tried first
RoleOf_MetadataFirst(obj) == IF obj.md_role # "" THEN obj.md_role ELSE obj.role

\* _role_of, "" standing for None
RoleOf(obj) == IF obj.role # "" THEN obj.role ELSE obj.md_role

\* a final message that is a non-empty string
HasMessage(obj) ==
    /\ obj.fm.present
    /\ \/ obj.fm.text # ""
       \/ obj.fm.is_json
       \/ obj.fm.blocks # <<>>
       \/ obj.fm.md # <<>>
       \/ obj.fm.trailer_kind # "none"

\* mutant: the isinstance(data, dict) test is missing
IterInstanceJsons_NoTypeCheck(insts) == insts

\* _iter_instance_jsons: the files that parse to a JSON object
IterInstanceJsons(insts) == SelectSeq(insts, LAMBDA r : r.is_dict)

IsValidatorOutput(obj) ==
    \/ RoleOf(obj) = "validator" /\ HasMessage(obj)
    \/ RoleOf(obj) \notin {"composer", "validator"} /\ obj.fm.present
                                                 /\ EndsWithJsonTrailer(obj.fm)

ValidatorMessages(recs) ==
    LET v == SelectSeq(recs, IsValidatorOutput)
    IN  [i \in DOMAIN v |-> v[i].fm]

ValidatorTrailerFindings(recs) ==
    LET v == ValidatorMessages(recs)
    IN  Flatten([i \in DOMAIN v |-> ParseTrailerFindings(v[i])])

NoMessage ==
    [present |-> FALSE, text |-> "", is_json |-> FALSE, intro |-> "", ids |-> <<>>,
     blocks |-> <<>>, md |-> <<>>, trailer_kind |-> "none", trailer |-> <<>>]

\* composer_body: the first non-empty composer message, NoMessage standing for None
ComposerBody(recs) ==
    LET c == SelectSeq(recs, LAMBDA r : RoleOf(r) = "composer" /\ HasMessage(r))
    IN  IF c = <<>> THEN NoMessage ELSE c[1].fm

\* composer_metrics.update(metrics) over the composer records: the last verdict stays
ComposerVerdict(recs) ==
    LET c == SelectSeq(recs, LAMBDA r : RoleOf(r) = "composer" /\ r.verdict # "")
    IN  IF c = <<>> THEN "" ELSE c[Len(c)].verdict

RECURSIVE DedupIds(_, _)
\* the string ids of selected_ids, each once, in first-occurrence order
DedupIds(ids, seen) ==
    IF ids = <<>> THEN <<>>
    ELSE IF Head(ids) \in seen THEN DedupIds(Tail(ids), seen)
    ELSE <<Head(ids)>> \o DedupIds(Tail(ids), seen \cup {Head(ids)})


\* selected_ids of a composer message that is a JSON object
SelectedIds(msg) == IF msg.is_json THEN DedupIds(msg.ids, {}) ELSE <<>>

NoIssuesBody == "No documentation issues detected."

IsBlank(text) == text \in {"", " "}

\* the summary body: the intro of a JSON composer message, else the message itself
SummaryBody(msg) ==
    LET b == IF msg.is_json
             THEN (IF IsBlank(msg.intro) THEN "Automated review summary" ELSE msg.intro)
             ELSE msg.text
    IN  IF IsBlank(b) THEN NoIssuesBody ELSE b

-----------------------------------------------------------------------------
(* Trailer join *)

TrailerKey(t) == <<t.path, IntOr0(t.start), IntOr0(t.end), UpperSev(t.severity), t.title>>

TrailerRaises(t) == IntOr0Raises(t.start) \/ IntOr0Raises(t.end)

TrailerIndexable(t) ==
    /\ t.path # "" /\ IntOr0(t.start) > 0 /\ IntOr0(t.end) >= IntOr0(t.start)
    /\ t.severity # "" /\ t.title # <<>> /\ t.uid # ""

FindingKey5(f) == <<f.path, f.start, f.end, UpperSev(f.severity), f.title>>

\* trailer_index[key]: the uid of the last indexable entry with that key, else None
TrailerIndexUid(trailer, key) ==
    LET hits == {i \in DOMAIN trailer : TrailerIndexable(trailer[i]) /\ TrailerKey(trailer[i]) = key}
    IN  IF hits = {} THEN None
        ELSE trailer[CHOOSE i \in hits : \A j \in hits : j <= i].uid

\* the parsed findings of one message with the uids of the trailer entries joined on
AttachUids(parsed, trailer) ==
    [i \in DOMAIN parsed |->
        LET u == TrailerIndexUid(trailer, FindingKey5(parsed[i]))
        IN  IF u = None THEN parsed[i] ELSE [parsed[i] EXCEPT !.uid = u]]

\* building trailer_index raises: there is a message to parse and an entry int() rejects
ParseLoopRaises(msgs, trailer) ==
    msgs # <<>> /\ \E i \in DOMAIN trailer : TrailerRaises(trailer[i])

\* mutant: each message's findings are joined with the trailer of that message alone
AllFindings_OwnTrailer(msgs, trailer) ==
    Flatten([i \in DOMAIN msgs |-> AttachUids(ParseFindings(msgs[i]), ParseTrailerFindings(msgs[i]))])

AllFindings(msgs, trailer) ==
    Flatten([i \in DOMAIN msgs |-> AttachUids(ParseFindings(msgs[i]), trailer)])

-----------------------------------------------------------------------------
(* Default strategy: filter by severity, then keep the first finding of each key *)

FilterSeverities(fs, sevs) == SelectSeq(fs, LAMBDA f : f.severity \in sevs)

\* mutant: nothing is deduplicated
Dedupe_KeepAll(fs, seen) == fs

RECURSIVE Dedupe_Pairwise(_, _)
\* mutant: a finding is dropped only when it repeats the key of its left neighbour, and
\* the scan resumes after the dropped one
Dedupe_Pairwise(fs, seen) ==
    IF Len(fs) < 2 THEN fs
    ELSE IF Key(fs[1]) = Key(fs[2])
         THEN <<fs[1]>> \o Dedupe_Pairwise(Tail(Tail(fs)), seen)
         ELSE <<fs[1]>> \o Dedupe_Pairwise(Tail(fs), seen)

RECURSIVE Dedupe(_, _)
Dedupe(fs, seen) ==
    IF fs = <<>> THEN <<>>
    ELSE IF Key(Head(fs)) \in seen THEN Dedupe(Tail(fs), seen)
    ELSE <<Head(fs)>> \o Dedupe(Tail(fs), seen \cup {Key(Head(fs))})

\* mutant: dedupe first, filter by severity afterwards
SelectDefault_DedupeFirst(fs, sevs) == FilterSeverities(Dedupe(fs, {}), sevs)

SelectDefault(fs, sevs) == Dedupe(FilterSeverities(fs, sevs), {})

-----------------------------------------------------------------------------
(* Explicit selection: resolve each selected id, in the order given *)

SelectedFindingTitle ==
    <<"S","e","l","e","c","t","e","d"," ","f","i","n","d","i","n","g">>

\* mutant: an id whose trailer entry matches no parsed finding resolves to nothing
ResolveId_NoSynthesis(uid, fs, trailer) ==
    LET byUid == {i \in DOMAIN trailer : trailer[i].uid = uid /\ uid # ""}
    IN  IF byUid # {}
        THEN LET key == TrailerKey(trailer[LastIndex(byUid)])
                 exact == {i \in DOMAIN fs : FindingKey5(fs[i]) = key}
             IN  IF exact # {} THEN <<fs[LastIndex(exact)]>> ELSE <<>>
        ELSE <<>>

\* the finding one id resolves to, as a sequence of zero or one finding
ResolveId(uid, fs, trailer) ==
    LET byUid == {i \in DOMAIN trailer : trailer[i].uid = uid /\ uid # ""}
    IN  IF byUid # {}
        THEN LET t == trailer[LastIndex(byUid)]
                 key == TrailerKey(t)
                 exact == {i \in DOMAIN fs : FindingKey5(fs[i]) = key}
                 alt == {i \in DOMAIN fs :
                            <<fs[i].path, fs[i].start, fs[i].end, UpperSev(fs[i].severity)>>
                                = <<key[1], key[2], key[3], key[4]>>}
             IN  IF exact # {} THEN <<fs[LastIndex(exact)]>>
                 ELSE IF alt # {} THEN <<fs[LastIndex(alt)]>>
                 ELSE IF key[1] # "" /\ key[2] > 0 /\ key[3] >= key[2]
                 THEN <<Finding(IF key[4] = "" THEN "HIGH" ELSE key[4],
                                IF key[5] = <<>> THEN SelectedFindingTitle ELSE key[5],
                                key[1], key[2], key[3], uid)>>
                 ELSE <<>>
        ELSE LET same == {i \in DOMAIN fs : fs[i].uid = uid}
             IN  IF same = {} THEN <<>> ELSE <<fs[FirstIndex(same)]>>

ResolveRaises(uid, trailer) ==
    LET byUid == {i \in DOMAIN trailer : trailer[i].uid = uid /\ uid # ""}
    IN  byUid # {} /\ TrailerRaises(trailer[LastIndex(byUid)])

\* mutant: every resolved finding is kept, whatever its severity
SelectByIds_Unfiltered(ids, fs, trailer, sevs) ==
    Flatten([i \in DOMAIN ids |-> ResolveId(ids[i], fs, trailer)])

SelectByIds(ids, fs, trailer, sevs) ==
    Flatten([i \in DOMAIN ids |->
                FilterSeverities(ResolveId(ids[i], fs, trailer), sevs)])

SelectByIdsRaises(ids, trailer) == \E i \in DOMAIN ids : ResolveRaises(ids[i], trailer)

\* mutant: base_list[: max_comments], a negative count cutting from the end
Cap_NoFloor(list, max_comments) ==
    IF max_comments >= 0 THEN Take(list, max_comments)
    ELSE Take(list, Max(0, Len(list) + max_comments))

\* base_list[: max(0, max_comments)]
Cap(list, max_comments) == Take(list, Max(0, max_comments))


-----------------------------------------------------------------------------
(* Inline comments *)

\* the location keys of a comment: line alone, or start_line and line
\* the body is kept by its parts: heading, description, suggestion block, prose
Comment(path, start, end, sev, title) ==
    [path |-> path, side |-> "RIGHT", line |-> end,
     has_start |-> start # end, start_line |-> IF start = end THEN 0 ELSE start,
     severity |-> sev, title |-> title,
     desc |-> <<>>, has_suggestion |-> FALSE, suggestion |-> <<>>,
     has_prose |-> FALSE, prose |-> <<>>]

\* mutant: a replacement is submitted whatever its number of lines
Fits_Always(n_range, repl) == TRUE

\* the replacement covers the range: line for line, or empty
Fits(n_range, repl) ==
    \/ n_range = 1 /\ Len(SplitLines(repl)) = 1
    \/ n_range > 1 /\ Len(SplitLines(repl)) = n_range
    \/ repl = <<>> /\ n_range >= 1

\* ln.startswith(c) and not ln.startswith(c + c)
Marked(ln, c) == StartsWith(ln, <<c>>) /\ ~StartsWith(ln, <<c, c>>)

\* the raw suggestion removes lines and adds none
DeletionOnly(raw) ==
    LET cb == ExtractFirstCodeBlock(raw)
        lines == SplitLines(IF cb.matched THEN cb.content ELSE raw)
    IN  /\ \E i \in DOMAIN lines : Marked(Strip(lines[i]), "-")
        /\ ~\E i \in DOMAIN lines : Marked(Strip(lines[i]), "+")

\* mutant: the fences are removed, what they enclose is kept
CleanedProse_KeepContent(raw) ==
    LET lines == SplitLines(Strip(raw))
    IN  Strip(JoinLines(SelectSeq(lines, LAMBDA ln : ~StartsWith(ln, Fence))))

\* the raw suggestion without a JSON trailer and without its fenced blocks
CleanedProse(raw) == Strip(FencedBlockSub(TrailerJsonSub(Strip(raw), 1), 1))

\* the suggestion part of the body of a finding whose range has n_range lines
SuggestionParts(f, n_range) ==
    LET none == [has_suggestion |-> FALSE, suggestion |-> <<>>,
                 has_prose |-> FALSE, prose |-> <<>>]
        repl == RStripNewlines(f.suggestion_replacement.text)
    IN  IF ~f.suggestion_replacement.is_none /\ Fits(n_range, repl)
        THEN [none EXCEPT !.has_suggestion = TRUE, !.suggestion = repl]
        ELSE IF Strip(f.suggestion_raw) = <<>> THEN none
        ELSE IF DeletionOnly(f.suggestion_raw) THEN [none EXCEPT !.has_suggestion = TRUE]
        ELSE [none EXCEPT !.has_prose = TRUE, !.prose = CleanedProse(f.suggestion_raw)]

\* the closing line of every comment body (its two emoji left out)
CallToAction ==
    Chars("Please leave a reaction to this suggestion to improve future reviews for everyone!")

\* the lines of a comment body before they are joined
BodyParts(c) ==
    <<Chars("### [") \o Chars(c.severity) \o Chars("] ") \o c.title>>
        \o (IF c.desc # <<>> THEN <<<<>>, c.desc>> ELSE <<>>)
        \o (IF c.has_suggestion
            THEN <<<<>>, Fence \o Chars("suggestion")>>
                    \o (IF c.suggestion # <<>> THEN <<c.suggestion>> ELSE <<>>)
                    \o <<Fence>>
            ELSE <<>>)
        \o (IF c.has_prose
            THEN <<<<>>>> \o (IF c.prose # <<>> THEN <<c.prose>> ELSE <<>>)
            ELSE <<>>)
        \o <<<<>>, CallToAction>>

\* the body of a comment as written: joined, stripped, its links made absolute
CommentBody(c, repo, sha) == AbsolutizeLocationLinks(Strip(JoinLines(BodyParts(c))), repo, sha)

Readable(fs, path) == path \in DOMAIN fs /\ fs[path] # NotFile

\* mutant: the end is never clamped
ClampEnd_Never(fs, path, end) == end

\* end after the clamp against the file's line count
ClampEnd(fs, path, end) ==
    IF Readable(fs, path) /\ end > fs[path] THEN fs[path] ELSE end

\* mutant: a location past the end of the file is clamped, not dropped
PastEnd_Never(fs, path, start) == FALSE

\* the location starts past the end of a readable file: no comment
PastEnd(fs, path, start) == Readable(fs, path) /\ start > fs[path]

\* a comment with the parts of its body
WithParts(c, desc, sp) ==
    [c EXCEPT !.desc = desc, !.has_suggestion = sp.has_suggestion,
              !.suggestion = sp.suggestion, !.has_prose = sp.has_prose, !.prose = sp.prose]

\* the comment of a finding whose end has been clamped
RenderClamped(f, end) ==
    WithParts(Comment(f.path, f.start, end, f.severity, f.title), Strip(f.desc),
              SuggestionParts(f, end - f.start + 1))

\* the comments of one finding: none when it is dropped
RenderFinding(f, fs) ==
    IF PastEnd(fs, f.path, f.start) THEN <<>>
    ELSE <<RenderClamped(f, ClampEnd(fs, f.path, f.end))>>

\* mutant: the comments are emitted by severity, HIGH first
RenderComments_HighFirst(list, fs) ==
    LET sorted == SelectSeq(list, LAMBDA f : f.severity = "HIGH")
                    \o SelectSeq(list, LAMBDA f : f.severity # "HIGH")
    IN  Flatten([i \in DOMAIN sorted |-> RenderFinding(sorted[i], fs)])

RenderComments(list, fs) == Flatten([i \in DOMAIN list |-> RenderFinding(list[i], fs)])

\* mutant: the event follows the composer's verdict
ReviewEvent_FromVerdict(verdict, cs) ==
    IF verdict = "REQUEST_CHANGES" THEN "REQUEST_CHANGES"
    ELSE IF verdict = "APPROVE" /\ cs = <<>> THEN "APPROVE"
    ELSE "COMMENT"

\* the review event of the per-agent-record path
ReviewEvent(verdict, cs) == "COMMENT"

Payload(b, event, cs, commit) ==
    [body |-> b, event |-> event, comments |-> cs, commit_id |-> commit]

-----------------------------------------------------------------------------
(* Sidecar *)

\* mutant: the per-agent records win over a sidecar when there are any
SidecarExists_UnlessRecords == sidecar.kind # "absent" /\ instances = <<>>

\* mutant: a sidecar that does not parse counts as absent
SidecarExists_ParsedOnly == sidecar.kind \notin {"absent", "unparsable"}

\* sidecar_path.exists()
SidecarExists == sidecar.kind # "absent"

\* json.loads of the sidecar file raises
SidecarUnparsable == sidecar.kind = "unparsable"

\* the fields of an item cannot be read: the item is skipped by the except clause
ItemFieldsRaise(it) == ~it.is_dict \/ IntOr0Raises(it.start) \/ IntOr0Raises(it.end)

ItemUsable(it) ==
    /\ it.path # "" /\ IntOr0(it.start) > 0 /\ IntOr0(it.end) >= IntOr0(it.start)
    /\ it.title # <<>>

\* an item that reaches the rendering part of the loop
ItemRendered(it, fs) ==
    /\ ~ItemFieldsRaise(it)
    /\ ItemUsable(it)
    /\ ~PastEnd(fs, it.path, IntOr0(it.start))

\* (it.get("severity") or "").strip() on a number raises, outside the try
ItemSeverityRaises(it) == it.severity.t = "int"

ItemSeverity(it) == IF it.severity.t = "str" THEN UpperSev(it.severity.s) ELSE ""

\* one line of a suggestion snippet: a diff header or a removed line gives nothing, an
\* added line loses its mark
SanitizeLine(ln) ==
    IF StartsWith(ln, Chars("--- ")) \/ StartsWith(ln, Chars("+++ ")) \/ StartsWith(ln, Chars("@@"))
    THEN <<>>
    ELSE IF Marked(ln, "+") THEN <<Tail(ln)>>
    ELSE IF Marked(ln, "-") THEN <<>>
    ELSE <<ln>>

\* sanitize_code_for_gh_suggestion
SanitizeCode(code) ==
    LET cb == ExtractFirstCodeBlock(code)
        lines == SplitLines(IF cb.matched THEN cb.content ELSE code)
    IN  RStripNewlines(JoinLines(Flatten([i \in DOMAIN lines |-> SanitizeLine(lines[i])])))

ItemComment(it, fs) ==
    LET start == IntOr0(it.start)
        end == ClampEnd(fs, it.path, IntOr0(it.end))
        repl == SanitizeCode(RStripNewlines(it.code))
        fits == Fits(end - start + 1, repl)
    IN  [Comment(it.path, start, end, ItemSeverity(it), it.title)
            EXCEPT !.desc = Strip(it.desc), !.has_suggestion = fits,
                   !.suggestion = IF fits THEN repl ELSE <<>>]

\* _build_from_sidecar raises: the sidecar is no object, selected_details cannot be
\* iterated, or a rendered item has a severity that is no string
SidecarRaises(sc, fs) ==
    \/ sc.kind = "nonobject"
    \/ sc.details_kind = "number"
    \/ \E i \in DOMAIN sc.items :
            ItemRendered(sc.items[i], fs) /\ ItemSeverityRaises(sc.items[i])

SidecarComments(sc, fs) ==
    LET kept == SelectSeq(sc.items, LAMBDA it : ItemRendered(it, fs))
    IN  [i \in DOMAIN kept |-> ItemComment(kept[i], fs)]

\* the review event of the sidecar path
SidecarEvent(sc) == "COMMENT"

SidecarBody(sc) == IF IsBlank(sc.intro) THEN NoIssuesBody ELSE sc.intro

SidecarCommit(sc, sha) ==
    IF sc.commit_id # "" THEN sc.commit_id ELSE IF sha # "" THEN sha ELSE None

\* the revision the bodies of the sidecar path are pinned to: the stripped commit id of
\* the sidecar, else --sha
SidecarLinkSha(sc, sha) ==
    LET commit_id == Str(Strip(Chars(sc.commit_id)))
    IN  IF commit_id # "" THEN commit_id ELSE sha


-----------------------------------------------------------------------------
(* The explored inputs *)

Paths == {"a.mdx", "b.mdx"}

TitleAB == <<"A", " ", "b">>
TitleAb2 == <<"a", "-", "-", "b", "!">>       \* the dedupe key of TitleAB
TitleC == <<"C">>

\* a heading block without Description and Suggestion lines
Block(sev, title, path, start, end) ==
    [severity |-> sev, title |-> title, path |-> path, start |-> start, end |-> end,
     desc |-> <<>>, sugg |-> <<>>]

Entry(path, start, end, sev, title, uid) ==
    [path |-> path, start |-> start, end |-> end, severity |-> sev,
     title |-> title, uid |-> uid]

\* an item without description and suggestion
Item(is_dict, path, start, end, title, sev) ==
    [is_dict |-> is_dict, path |-> path, start |-> start, end |-> end,
     title |-> title, severity |-> sev, desc |-> <<>>, code |-> <<>>]

SevStr(s) == [t |-> "str", s |-> s]
SevNull == [t |-> "null", s |-> ""]
SevNumber == [t |-> "int", s |-> ""]

Markdown(text, blocks, trailer_kind, trailer) ==
    [present |-> TRUE, text |-> text, is_json |-> FALSE, intro |-> "", ids |-> <<>>,
     blocks |-> blocks, md |-> <<>>, trailer_kind |-> trailer_kind, trailer |-> trailer]

\* a final message given by its text
MarkdownText(md) == [Markdown("", <<>>, "none", <<>>) EXCEPT !.md = md]

ComposerJson(intro, ids) ==
    [present |-> TRUE, text |-> "", is_json |-> TRUE, intro |-> intro, ids |-> ids,
     blocks |-> <<>>, md |-> <<>>, trailer_kind |-> "none", trailer |-> <<>>]

Record(is_dict, role, md_role, fm, verdict) ==
    [is_dict |-> is_dict, role |-> role, md_role |-> md_role, fm |-> fm,
     verdict |-> verdict]

Validator(blocks) == Record(TRUE, "validator", "", Markdown("", blocks, "none", <<>>), "")

ValidatorText(md) == Record(TRUE, "validator", "", MarkdownText(md), "")

NoSidecar ==
    [kind |-> "absent", intro |-> "", commit_id |-> "", event |-> "",
     details_kind |-> "list", items |-> <<>>]

SidecarObject(intro, commit, event, details_kind, items) ==
    [kind |-> "object", intro |-> intro, commit_id |-> commit, event |-> event,
     details_kind |-> details_kind, items |-> items]

Config(sevs, max_comments, sha) ==
    [include_sevs |-> sevs, max_comments |-> max_comments, sha |-> sha, repo |-> "o/r"]

Files(a_lines) == [p \in Paths |-> IF p = "a.mdx" THEN a_lines ELSE NotFile]

FileStates == {Files(n) : n \in {NotFile} \cup 0..MaxFileLines}

SevSets == {{"HIGH"}, {"HIGH", "MEDIUM"}, Severities}

Input(sc, insts, fs, c) == [sidecar |-> sc, instances |-> insts, files |-> fs, cfg |-> c]

B1 == Block("HIGH", TitleAB, "a.mdx", 1, 1)

\* Default strategy: one validator message, every severity set and cap
DedupBlocks ==
    {B1,
     Block("MEDIUM", TitleAb2, "a.mdx", 1, 1),
     Block("high", TitleAb2, "a.mdx", 1, 1),
     Block("LOW", TitleC, "a.mdx", 2, 3),
     Block("HIGH", TitleC, "", 0, 0),
     Block("HIGH", TitleC, "b.mdx", 3, 2)}

InputsDefault ==
    {Input(NoSidecar, <<Validator(bs)>>, Files(n), Config(sevs, m, "s1")) :
        bs \in SeqsUpTo(DedupBlocks, MaxBlocks), n \in {NotFile, 1},
        sevs \in SevSets, m \in -1..MaxBlocks}

\* Discovery order across two validator messages
InputsTwoMessages ==
    {Input(NoSidecar, <<Validator(<<b1>>), Validator(<<b2>>)>>, Files(NotFile),
           Config(Severities, m, "s1")) :
        b1 \in DedupBlocks, b2 \in DedupBlocks, m \in {1, 2}}

\* Clamping: every range against every file length
RangeBlocks == {Block("HIGH", TitleC, "a.mdx", s, e) : s \in 1..MaxLine, e \in 1..MaxLine}

InputsClamp ==
    {Input(NoSidecar, <<Validator(bs)>>, fs, Config({"HIGH"}, 2, "s1")) :
        bs \in UNION {[1..k -> RangeBlocks] : k \in 1..2}, fs \in FileStates}

\* Explicit selection: a composer's selected_ids against the validators' trailer
TrailerEntries ==
    {Entry("a.mdx", JInt(1), JInt(1), "HIGH", TitleAB, "u1"),
     Entry("b.mdx", JInt(2), JInt(3), "LOW", TitleC, "u2"),
     Entry("a.mdx", JStr(<<"1">>), JInt(1), "high", TitleC, "u2"),
     Entry("a.mdx", JStr(<<"x">>), JInt(1), "HIGH", TitleAB, "u1"),
     Entry("", JNull, JNull, "", <<>>, "u1"),
     Entry("a.mdx", JInt(2), JInt(2), "", <<>>, "u2")}

IdChoices == {"u1", "u2", "zz"}

InputsIds ==
    {Input(NoSidecar,
           <<Record(TRUE, "composer", "", ComposerJson("Intro", ids), ""),
             Record(TRUE, "validator", "", Markdown("", bs, "ok", tr), "")>>,
           Files(NotFile), Config(sevs, 2, "s1")) :
        ids \in SeqsUpTo(IdChoices, MaxIds),
        bs \in {<<B1>>, <<B1, Block("LOW", TitleC, "b.mdx", 2, 3)>>},
        tr \in SeqsUpTo(TrailerEntries, 2),
        sevs \in {{"HIGH"}, Severities}}

\* Sidecar: every list of items against every file length and cap
SidecarItems ==
    {Item(TRUE, "a.mdx", JInt(1), JInt(1), TitleAB, SevStr("high")),
     Item(TRUE, "a.mdx", JInt(2), JInt(3), TitleC, SevNull),
     Item(TRUE, "b.mdx", JStr(<<"2">>), JInt(3), TitleC, SevStr("LOW")),
     Item(FALSE, "", JNull, JNull, <<>>, SevNull),
     Item(TRUE, "a.mdx", JStr(<<"x">>), JInt(1), TitleC, SevStr("HIGH")),
     Item(TRUE, "a.mdx", JInt(1), JInt(1), TitleC, SevNumber),
     Item(TRUE, "a.mdx", JInt(1), JInt(1), <<>>, SevStr("HIGH")),
     Item(TRUE, "a.mdx", JInt(3), JInt(2), TitleC, SevStr("HIGH"))}

InputsSidecar ==
    {Input(SidecarObject("Intro", "c1", "", "list", its), insts, fs, Config({"HIGH"}, m, "s1")) :
        its \in SeqsUpTo(SidecarItems, MaxItems),
        insts \in {<<>>, <<Validator(<<B1>>)>>},
        fs \in FileStates, m \in {0, 1, MaxItems}}

\* Source location: every kind of sidecar against every short list of records
SidecarKinds ==
    {NoSidecar,
     [NoSidecar EXCEPT !.kind = "unparsable"],
     [NoSidecar EXCEPT !.kind = "nonobject"],
     SidecarObject("Intro", "", "", "number", <<>>)}
    \cup {SidecarObject(intro, commit, event, "list",
                        <<Item(TRUE, "a.mdx", JInt(1), JInt(1), TitleAB, SevStr("high"))>>) :
            intro \in {"", "Intro"}, commit \in {"", "c1"}, event \in {"", "APPROVE"}}

LocatorRecords ==
    {Record(FALSE, "", "", NoMessage, ""),
     Record(TRUE, "composer", "", Markdown("Summary", <<>>, "none", <<>>), "APPROVE"),
     Record(TRUE, "", "composer", Markdown(" ", <<>>, "none", <<>>), "REQUEST_CHANGES"),
     Record(TRUE, "composer", "", ComposerJson("", <<>>), ""),
     Validator(<<B1>>),
     Record(TRUE, "", "validator", Markdown("", <<Block("MEDIUM", TitleC, "b.mdx", 2, 2)>>, "none", <<>>), "REQUEST_CHANGES"),
     Record(TRUE, "other", "", Markdown("", <<Block("HIGH", TitleC, "a.mdx", 2, 2)>>, "bad", <<>>), ""),
     Record(TRUE, "", "", Markdown("note", <<B1>>, "none", <<>>), "")}

InputsLocator ==
    {Input(sc, insts, Files(NotFile), Config({"HIGH", "MEDIUM"}, 2, sha)) :
        sc \in SidecarKinds, insts \in SeqsUpTo(LocatorRecords, MaxRecords),
        sha \in {"", "s1"}}

\* Fifty valid findings against the default cap of forty
ScenarioD ==
    Input(NoSidecar,
          <<Validator([i \in 1..ScenarioDCount |-> Block("HIGH", TitleC, "b.mdx", i, i)])>>,
          Files(NotFile), Config({"HIGH"}, DefaultMaxComments, "s1"))

\* Validator messages given by their text
Dec(n) == <<Digits[n + 1]>>

\* the Location line of a block: with its end, or with the start alone
LocationText(b, short) ==
    Chars("Location: ") \o Chars(b.path) \o PlainAnchor \o Dec(b.start)
        \o (IF short THEN <<>> ELSE Chars("-L") \o Dec(b.end))

\* the lines of a heading block: no Location line when the block has no path, the end
\* left out of the Location when short is asked for and the range is one line
BlockLines(b, short) ==
    <<Chars("### [") \o Chars(b.severity) \o Chars("] ") \o b.title>>
        \o (IF b.path # "" THEN <<LocationText(b, short /\ b.start = b.end)>> ELSE <<>>)
        \o (IF b.desc # <<>> THEN <<Chars("Description:"), b.desc>> ELSE <<>>)
        \o (IF b.sugg # <<>> THEN <<Chars("Suggestion:"), b.sugg>> ELSE <<>>)

\* a validator's final message: a line of introduction, then the blocks
MessageText(bs, short) ==
    JoinLines(<<Chars("Findings")>> \o Flatten([i \in DOMAIN bs |-> BlockLines(bs[i], short)]))

\* the record of a validator whose message was written from the blocks bs
ValidatorWriting(bs, short) ==
    Record(TRUE, "validator", "", [MarkdownText(MessageText(bs, short)) EXCEPT !.blocks = bs], "")

MissingX == Chars("missing X")

TextBlocks ==
    {[Block("HIGH", TitleAB, "a.mdx", 1, 2) EXCEPT !.desc = MissingX],
     Block("MEDIUM", TitleC, "b.mdx", 2, 2),
     Block("HIGH", TitleC, "", 0, 0),
     [Block("LOW", TitleC, "a.mdx", 0, 1) EXCEPT !.desc = MissingX],
     Block("HIGH", TitleAB, "b.mdx", 3, 2)}

\* Parsing: three blocks, well formed or not, in every order
InputsParse ==
    {Input(NoSidecar, <<ValidatorWriting(<<b1, b2, b3>>, short)>>, Files(NotFile),
           Config(Severities, 3, "s1")) :
        b1 \in TextBlocks, b2 \in TextBlocks, b3 \in TextBlocks, short \in BOOLEAN}

\* Suggestions: a fenced block, with or without a language tag, text before and after it;
\* or prose alone
FencedBlock(lang, content) == Fence \o lang \o <<"\n">> \o content \o NewlineFence

Sugg(pre, lang, content, post) == pre \o FencedBlock(lang, content) \o post

SuggLangs == {<<>>, Chars("md"), Chars("json"), Chars("diff")}

OneLineContents ==
    {Chars("fixed line"), Chars("{\"a\": 1}"), Chars("see docs/a.mdx?plain=1#L5"), Chars("-old")}

SuggContents ==
    OneLineContents
        \cup {Chars("l1\nl2"), Chars("-old\n+new"), Chars("l1\nl2\nl3"), Chars("ctx\n-old")}

SuggPres == {<<>>, Chars("Use this:\n")}

SuggPosts == {<<>>, Chars("\nthanks")}

ProseSuggs ==
    {Chars("Use X instead"), Chars("- reword this"), Chars("Use X instead:\n- reword this")}

Suggs ==
    {Sugg(pre, lang, content, post) :
        pre \in SuggPres, lang \in SuggLangs, content \in SuggContents, post \in SuggPosts}
        \cup ProseSuggs

\* one finding with a description and a suggestion, on one line or on three, the file
\* unreadable or two lines long
InputsSuggestion ==
    {Input(NoSidecar,
           <<ValidatorWriting(<<[Block("HIGH", TitleC, "a.mdx", 1, e)
                                    EXCEPT !.desc = MissingX, !.sugg = sg]>>, FALSE)>>,
           Files(n), Config({"HIGH"}, 1, "s1")) :
        e \in {1, 3}, sg \in Suggs, n \in {NotFile, 2}}

\* Sidecar items with a suggestion snippet
\* a unified diff that replaces one line
DiffText == Chars("--- a\n+++ b\n@@ -1 +1 @@\n-old\n+new")

ItemCodes ==
    {Chars("fixed line"), Chars("l1\nl2"), Chars("l1\nl2\nl3"), Chars("-old"),
     FencedBlock(Chars("diff"), DiffText), FencedBlock(Chars("md"), Chars("fixed line")),
     Chars("see docs/a.mdx?plain=1#L5\n")}

InputsSidecarCode ==
    {Input(SidecarObject("Intro", "c1", "", "list",
                         <<[Item(TRUE, "a.mdx", JInt(1), JInt(e), TitleC, SevStr("HIGH"))
                                EXCEPT !.desc = MissingX, !.code = code]>>),
           <<>>, Files(n), Config({"HIGH"}, 1, "s1")) :
        e \in {1, 3}, code \in ItemCodes, n \in {NotFile, 2}}

\* Sections: the lines under a heading, after its Location and the first line of its
\* Description, labels and text in every order; a second finding follows
MaxSectionLines == 3

SectionLineKinds ==
    {Chars("Description:"), Chars("Suggestion: use Y"), Chars("  description: more"),
     Chars("Location: b.mdx#L2"), Chars("Location: see above"), Chars("one"), Chars("two")}

SectionsText(ls) ==
    JoinLines(<<Chars("Findings"), Chars("### [HIGH] A b"), Chars("Location: a.mdx?plain=1#L1-L2"),
                 Chars("Description:"), Chars("zero")>>
                \o ls
                \o <<Chars("### [LOW] C"), Chars("Location: b.mdx#L3"), Chars("Description:"),
                     Chars("two")>>)

\* the record of a validator whose message has the lines ls under its first heading; the
\* first finding is at the last Location that has a line anchor
SectionsWriting(ls) ==
    Record(TRUE, "validator", "",
           [MarkdownText(SectionsText(ls))
                EXCEPT !.blocks = <<IF Chars("Location: b.mdx#L2") \in Range(ls)
                                    THEN Block("HIGH", TitleAB, "b.mdx", 2, 2)
                                    ELSE Block("HIGH", TitleAB, "a.mdx", 1, 2),
                                    Block("LOW", TitleC, "b.mdx", 3, 3)>>],
           "")

InputsSections ==
    {Input(NoSidecar, <<SectionsWriting(ls)>>, Files(NotFile), Config(Severities, 3, "s1")) :
        ls \in SeqsUpTo(SectionLineKinds, MaxSectionLines)}

\* Roles: a role at the top level and another under metadata, a composer whose message
\* ends in a trailer, records without a role with and without a trailer
RoleRecords ==
    {Record(TRUE, "validator", "composer", Markdown("", <<B1>>, "none", <<>>), ""),
     Record(TRUE, "composer", "validator", Markdown("Summary", <<B1>>, "ok", <<>>), ""),
     Record(TRUE, "", "", Markdown("", <<Block("MEDIUM", TitleC, "b.mdx", 2, 2)>>, "ok", <<>>), ""),
     Record(TRUE, "other", "validator", Markdown("note", <<B1>>, "none", <<>>), ""),
     Record(TRUE, "", "composer", Markdown("Second", <<>>, "none", <<>>), ""),
     Record(TRUE, "composer", "", Markdown("", <<>>, "none", <<>>), "")}

InputsRoles ==
    {Input(NoSidecar, <<r1, r2>>, Files(NotFile), Config(Severities, 2, "s1")) :
        r1 \in RoleRecords, r2 \in RoleRecords}

\* Two validators, each with one finding and a trailer of its own
B2 == Block("LOW", TitleC, "b.mdx", 2, 3)

OwnTrailers ==
    SeqsUpTo({Entry("a.mdx", JInt(1), JInt(1), "HIGH", TitleAB, "u1"),
              Entry("a.mdx", JInt(1), JInt(1), "high", TitleAB, "u2"),
              Entry("b.mdx", JInt(2), JInt(3), "LOW", TitleC, "u3")}, 1)

InputsTwoTrailers ==
    {Input(NoSidecar,
           <<Record(TRUE, "validator", "", Markdown("", <<B1>>, "ok", tr1), ""),
             Record(TRUE, "validator", "", Markdown("", <<b>>, "ok", tr2), "")>>,
           Files(NotFile), Config(Severities, 2, "s1")) :
        b \in {B1, B2}, tr1 \in OwnTrailers, tr2 \in OwnTrailers}

\* Sidecar commit ids: none, one, blank, padded, against a head revision or none, with a
\* reference in the intro and in the description of the one item
DocReference == "see docs/a.mdx?plain=1#L5"

InputsSidecarCommit ==
    {Input(SidecarObject(DocReference, commit, "", "list",
                         <<[Item(TRUE, "a.mdx", JInt(1), JInt(1), TitleC, SevStr("HIGH"))
                                EXCEPT !.desc = Chars(DocReference)]>>),
           <<>>, Files(NotFile), Config({"HIGH"}, 1, sha)) :
        commit \in {"", "c1", " ", " c1 "}, sha \in {"", "s1"}}

Inputs ==
    InputsDefault \cup InputsTwoMessages \cup InputsClamp \cup InputsIds
        \cup InputsSidecar \cup InputsLocator \cup {ScenarioD} \cup InputsParse
        \cup InputsSuggestion \cup InputsSidecarCode \cup InputsRoles
        \cup InputsTwoTrailers \cup InputsSidecarCommit

-----------------------------------------------------------------------------
(* main() *)

\* the state main() starts in, on an input of the set I
InitWith(I) ==
    /\ \E i \in I :
        /\ sidecar = i.sidecar
        /\ instances = i.instances
        /\ files = i.files
        /\ cfg = i.cfg
    /\ pc = "start"
    /\ read_instances = FALSE
    /\ n_parse_calls = 0
    /\ composer_body = NoMessage
    /\ composer_metrics = ""
    /\ validator_messages = <<>>
    /\ validator_trailer_findings = <<>>
    /\ selected_ids = <<>>
    /\ body = ""
    /\ findings = <<>>
    /\ selected = <<>>
    /\ base_list = <<>>
    /\ comments = <<>>
    /\ out = <<>>
    /\ exit_code = 0
    /\ link_input = <<>>
    /\ rewritten = <<>>

Init == InitWith(Inputs)

work == <<read_instances, n_parse_calls, composer_body, composer_metrics,
          validator_messages, validator_trailer_findings, selected_ids, body,
          findings, selected, base_list, comments>>

\* SystemExit with a message, or an exception no handler catches: nothing is written
Fails ==
    /\ pc' = "failed"
    /\ exit_code' = 1
    /\ out' = out

\* the sidecar file exists and json.loads raises: SystemExit
SidecarUnreadable ==
    /\ pc = "start"
    /\ SidecarExists
    /\ SidecarUnparsable
    /\ Fails
    /\ UNCHANGED <<inputs, links, work>>

\* the sidecar file exists and parses: _build_from_sidecar, then the payload is written
BuildFromSidecar ==
    /\ pc = "start"
    /\ SidecarExists
    /\ ~SidecarUnparsable
    /\ IF SidecarRaises(sidecar, files)
       THEN Fails /\ UNCHANGED <<body, comments>>
       ELSE /\ body' = SidecarBody(sidecar)
            /\ comments' = SidecarComments(sidecar, files)
            /\ out' = <<Payload(body', SidecarEvent(sidecar), comments',
                               SidecarCommit(sidecar, cfg.sha))>>
            /\ pc' = "done"
            /\ exit_code' = 0
    /\ UNCHANGED <<inputs, links, read_instances, n_parse_calls, composer_body,
                   composer_metrics, validator_messages, validator_trailer_findings,
                   selected_ids, findings, selected, base_list>>

\* no sidecar: list the per-agent records, SystemExit when there is none
ReadInstances ==
    /\ pc = "start"
    /\ ~SidecarExists
    /\ read_instances' = TRUE
    /\ IF IterInstanceJsons(instances) = <<>>
       THEN Fails
       ELSE pc' = "classify" /\ UNCHANGED <<out, exit_code>>
    /\ UNCHANGED <<inputs, links, n_parse_calls, composer_body, composer_metrics,
                   validator_messages, validator_trailer_findings, selected_ids, body,
                   findings, selected, base_list, comments>>

\* the loop over the records: composer summary and metrics, validator messages and trailers
Classify ==
    /\ pc = "classify"
    /\ LET recs == IterInstanceJsons(instances)
       IN  /\ composer_body' = ComposerBody(recs)
           /\ composer_metrics' = ComposerVerdict(recs)
           /\ validator_messages' = ValidatorMessages(recs)
           /\ validator_trailer_findings' = ValidatorTrailerFindings(recs)
    /\ pc' = "compose"
    /\ UNCHANGED <<inputs, links, read_instances, n_parse_calls, selected_ids, body, findings,
                   selected, base_list, comments, out, exit_code>>

\* selected ids and summary body from the composer output
Compose ==
    /\ pc = "compose"
    /\ selected_ids' = SelectedIds(composer_body)
    /\ body' = SummaryBody(composer_body)
    /\ pc' = "parse"
    /\ UNCHANGED <<inputs, links, read_instances, n_parse_calls, composer_body, composer_metrics,
                   validator_messages, validator_trailer_findings, findings, selected,
                   base_list, comments, out, exit_code>>

\* parse every validator message and join the trailer uids on
Parse ==
    /\ pc = "parse"
    /\ IF ParseLoopRaises(validator_messages, validator_trailer_findings)
       THEN Fails /\ UNCHANGED <<findings, n_parse_calls>>
       ELSE /\ findings' = AllFindings(validator_messages, validator_trailer_findings)
            /\ n_parse_calls' = Len(validator_messages)
            /\ pc' = "select"
            /\ UNCHANGED <<out, exit_code>>
    /\ UNCHANGED <<inputs, links, read_instances, composer_body, composer_metrics,
                   validator_messages, validator_trailer_findings, selected_ids, body,
                   selected, base_list, comments>>

\* the composer provided ids: resolve them in their order
SelectExplicit ==
    /\ pc = "select"
    /\ selected_ids # <<>>
    /\ IF SelectByIdsRaises(selected_ids, validator_trailer_findings)
       THEN Fails /\ UNCHANGED selected
       ELSE /\ selected' = SelectByIds(selected_ids, findings, validator_trailer_findings,
                                       cfg.include_sevs)
            /\ pc' = "cap"
            /\ UNCHANGED <<out, exit_code>>
    /\ UNCHANGED <<inputs, links, read_instances, n_parse_calls, composer_body, composer_metrics,
                   validator_messages, validator_trailer_findings, selected_ids, body,
                   findings, base_list, comments>>

\* no ids: filter by severity, then dedupe
SelectByDefault ==
    /\ pc = "select"
    /\ selected_ids = <<>>
    /\ selected' = SelectDefault(findings, cfg.include_sevs)
    /\ pc' = "cap"
    /\ UNCHANGED <<inputs, links, read_instances, n_parse_calls, composer_body, composer_metrics,
                   validator_messages, validator_trailer_findings, selected_ids, body,
                   findings, base_list, comments, out, exit_code>>

\* cap the number of comments
CapList ==
    /\ pc = "cap"
    /\ base_list' = Cap(selected, cfg.max_comments)
    /\ pc' = "render"
    /\ UNCHANGED <<inputs, links, read_instances, n_parse_calls, composer_body, composer_metrics,
                   validator_messages, validator_trailer_findings, selected_ids, body,
                   findings, selected, comments, out, exit_code>>

\* build the inline comments and write the payload
Render ==
    /\ pc = "render"
    /\ comments' = RenderComments(base_list, files)
    /\ out' = <<Payload(body, ReviewEvent(composer_metrics, comments'), comments',
                       IF cfg.sha # "" THEN cfg.sha ELSE None)>>
    /\ pc' = "done"
    /\ exit_code' = 0
    /\ UNCHANGED <<inputs, links, read_instances, n_parse_calls, composer_body, composer_metrics,
                   validator_messages, validator_trailer_findings, selected_ids, body,
                   findings, selected, base_list>>

Next ==
    \/ SidecarUnreadable
    \/ BuildFromSidecar
    \/ ReadInstances
    \/ Classify
    \/ Compose
    \/ Parse
    \/ SelectExplicit
    \/ SelectByDefault
    \/ CapList
    \/ Render

Spec == Init /\ [][Next]_vars

Terminated == pc \in {"done", "failed"}

-----------------------------------------------------------------------------
(* The per-agent-record path on messages given line by line *)

InitSections == InitWith(InputsSections)

NextSections ==
    \/ ReadInstances
    \/ Classify
    \/ Compose
    \/ Parse
    \/ SelectByDefault
    \/ CapList
    \/ Render

SpecSections == InitSections /\ [][NextSections]_vars


-----------------------------------------------------------------------------
(* The link rewriting on its own: a text, its rewriting, and the rewriting of that *)

LinkPaths ==
    {Chars("docs/a.mdx"), style_rel, Chars("docs/") \o style_rel, Chars("./docs/b.json")}

LinkAnchors == {PlainAnchor \o Chars("5"), PlainAnchor \o Chars("5-L9")}

Revisions == {Chars("abc"), Chars("main"), Chars("SHA")}

\* references relative to the repository, and blob URLs of the repository "o/r"
RelativeRefs == {p \o a : p \in LinkPaths, a \in LinkAnchors}

AbsoluteRefs ==
    {BlobPrefix(Chars("o/r")) \o rev \o <<"/">> \o p \o a :
        rev \in Revisions, p \in LinkPaths \ {Chars("./docs/b.json")},
        a \in LinkAnchors \cup {<<>>}}

\* a reference in running text, on a Location line, on a listed Location line, alone
LinkLines(ref) ==
    {Chars("see ") \o ref \o Chars(" now"), Chars("Location: ") \o ref,
     Chars("  - Location:  ") \o ref, ref}

LineEnds == {<<>>, <<"\n">>, <<"\n", "\n">>}

MixedLines ==
    {Chars("Summary"),
     Chars("Location: docs/a.mdx#L5"),
     Chars("see docs/a.mdx?plain=1#L5 and contribute/style-guide-extended.mdx?plain=1#L7"),
     BlobPrefix(Chars("o/r")) \o Chars("abc/docs/a.mdx?plain=1#L5"),
     BlobPrefix(Chars("o/r")) \o Chars("abc/contribute/style-guide-extended.mdx"),
     BlobPrefix(Chars("o/r")) \o Chars("contribute/style-guide-extended.mdx?plain=1#L5"),
     Chars("* Location: ../docs/a.mdx")}

LinkTexts ==
    {l \o e : l \in UNION {LinkLines(r) : r \in RelativeRefs \cup AbsoluteRefs}, e \in LineEnds}
        \cup {l1 \o <<"\n">> \o l2 \o e : l1 \in MixedLines, l2 \in MixedLines, e \in LineEnds}
        \cup {<<>>}

\* --repo and --sha: a repository with a head revision, with none, with main; no repository
LinkConfigs ==
    {Config({}, 0, "SHA"), Config({}, 0, ""), Config({}, 0, "main"),
     [Config({}, 0, "SHA") EXCEPT !.repo = ""]}

InitLinks ==
    /\ link_input \in LinkTexts
    /\ cfg \in LinkConfigs
    /\ rewritten = <<>>
    /\ pc = "links"
    /\ sidecar = NoSidecar
    /\ instances = <<>>
    /\ files = Files(NotFile)
    /\ read_instances = FALSE
    /\ n_parse_calls = 0
    /\ composer_body = NoMessage
    /\ composer_metrics = ""
    /\ validator_messages = <<>>
    /\ validator_trailer_findings = <<>>
    /\ selected_ids = <<>>
    /\ body = ""
    /\ findings = <<>>
    /\ selected = <<>>
    /\ base_list = <<>>
    /\ comments = <<>>
    /\ out = <<>>
    /\ exit_code = 0

\* the text is rewritten
Rewrite ==
    /\ pc = "links"
    /\ rewritten' = <<AbsolutizeLocationLinks(link_input, Chars(cfg.repo), Chars(cfg.sha))>>
    /\ pc' = "linked"
    /\ UNCHANGED <<inputs, link_input, work, out, exit_code>>

\* the result is rewritten once more
RewriteAgain ==
    /\ pc = "linked"
    /\ rewritten' = Append(rewritten,
                           AbsolutizeLocationLinks(rewritten[1], Chars(cfg.repo), Chars(cfg.sha)))
    /\ pc' = "relinked"
    /\ UNCHANGED <<inputs, link_input, work, out, exit_code>>

NextLinks ==
    \/ Rewrite
    \/ RewriteAgain

SpecLinks == InitLinks /\ [][NextLinks]_vars

\* the standalone rewriter writes its result for the same text to its stdout
RewriteStandalone ==
    /\ pc = "linked"
    /\ out' = <<RewriteReviewLinks(link_input, Chars(cfg.repo), Chars(cfg.sha))>>
    /\ pc' = "written"
    /\ UNCHANGED <<inputs, link_input, rewritten, work, exit_code>>

NextRewriters ==
    \/ Rewrite
    \/ RewriteStandalone

SpecRewriters == InitLinks /\ [][NextRewriters]_vars

-----------------------------------------------------------------------------
(* Claims *)

Emitted == pc = "done" /\ Len(out) = 1

SomeRecordIsObject == \E i \in DOMAIN instances : instances[i].is_dict

\* C1: every payload written to stdout has event "COMMENT", on the sidecar path
\* and on the per-agent-record path, whatever the severities, verdicts and sidecar say
C1_EventAlwaysComment == \A i \in DOMAIN out : out[i].event = "COMMENT"

C1_Witness ==
    /\ Emitted
    /\ sidecar.kind = "absent"
    /\ composer_metrics = "REQUEST_CHANGES"
    /\ \E i \in DOMAIN comments : comments[i].severity = "HIGH"

\* C2: with no sidecar and no per-agent record that is a JSON object the run ends
\* with a non-zero exit and nothing is ever written to stdout
C2_NoInputAborts ==
    (sidecar.kind = "absent" /\ ~SomeRecordIsObject)
        => /\ out = <<>>
           /\ pc # "done"
           /\ Terminated => (pc = "failed" /\ exit_code # 0)

C2_Witness ==
    /\ pc = "failed"
    /\ sidecar.kind = "absent"
    /\ instances # <<>>
    /\ ~SomeRecordIsObject

\* C3: with a sidecar present the per-agent records are never read, no message is
\* parsed, and the payload is the one the sidecar and the configuration determine
C3_SidecarAuthoritative ==
    sidecar.kind \in {"nonobject", "object"}
        => /\ ~read_instances
           /\ n_parse_calls = 0
           /\ pc = "done" =>
                out = <<Payload(SidecarBody(sidecar), "COMMENT",
                                SidecarComments(sidecar, files),
                                SidecarCommit(sidecar, cfg.sha))>>

C3_Witness ==
    /\ Emitted
    /\ sidecar.kind = "object"
    /\ comments # <<>>
    /\ \E i \in DOMAIN instances : IsValidatorOutput(instances[i])

C5_MalformedInputNeverTerminates ==
    (Terminated /\ (sidecar.kind \in {"nonobject", "object"}
                        \/ (sidecar.kind = "absent" /\ SomeRecordIsObject)))
        => Emitted

SameKey(f, g) ==
    /\ f.path = g.path /\ f.start = g.start /\ f.end = g.end
    /\ NormTitle(f.title) = NormTitle(g.title)

\* the finding at i has a requested severity and no earlier finding with a requested
\* severity has its key
FirstOfKey(fs, sevs, i) ==
    /\ fs[i].severity \in sevs
    /\ \A j \in 1..(i - 1) : fs[j].severity \in sevs => ~SameKey(fs[j], fs[i])

RECURSIVE Restrict(_, _, _)
\* the entries of fs at the indices of I, from index i on, in order
Restrict(fs, I, i) ==
    IF i > Len(fs) THEN <<>>
    ELSE (IF i \in I THEN <<fs[i]>> ELSE <<>>) \o Restrict(fs, I, i + 1)

\* C6: in the default strategy the list handed to truncation is the subsequence of the
\* parsed findings with a requested severity that are the first with their dedupe key
C6_DefaultSelection ==
    (pc \in {"cap", "render", "done"} /\ read_instances /\ selected_ids = <<>>)
        => selected =
             Restrict(findings,
                      {i \in DOMAIN findings : FirstOfKey(findings, cfg.include_sevs, i)}, 1)

C6_Witness ==
    /\ pc = "cap"
    /\ selected_ids = <<>>
    /\ Len(findings) = 2
    /\ findings[1].severity \notin cfg.include_sevs
    /\ findings[2].severity \in cfg.include_sevs
    /\ SameKey(findings[1], findings[2])
    /\ findings[1].title # findings[2].title
    /\ selected = <<findings[2]>>

AllUnreadable(list) == \A i \in DOMAIN list : ~Readable(files, list[i].path)

C8_CommentsWithinCap ==
    \A i \in DOMAIN out : Len(out[i].comments) <= Max(0, cfg.max_comments)

WellFormedRange(c) ==
    IF c.has_start THEN 1 <= c.start_line /\ c.start_line < c.line
    ELSE 1 <= c.line

\* C9: every inline comment written has 1 <= start <= end: line alone, or start_line
\* below line; so has every selected finding before clamping
C9_StartLeEnd ==
    /\ \A i \in DOMAIN out : \A j \in DOMAIN out[i].comments :
            WellFormedRange(out[i].comments[j])
    /\ \A i \in DOMAIN selected : 1 <= selected[i].start /\ selected[i].start <= selected[i].end

C9_Witness ==
    /\ Emitted
    /\ Len(base_list) = 1
    /\ Len(comments) = 1
    /\ comments[1].has_start
    /\ comments[1].line < base_list[1].end

CommentStart(c) == IF c.has_start THEN c.start_line ELSE c.line

CommentOrigin(c) == <<c.path, CommentStart(c), c.title>>

CommentPlaces(cs) == [i \in DOMAIN cs |-> <<cs[i].path, CommentStart(cs[i])>>]

\* where the trailer puts a selected id
IdPlace(uid) ==
    LET byUid == {i \in DOMAIN validator_trailer_findings :
                     validator_trailer_findings[i].uid = uid}
    IN  IF byUid = {} THEN <<"", 0>>
        ELSE LET t == validator_trailer_findings[LastIndex(byUid)]
             IN  <<t.path, IntOr0(t.start)>>

ItemOrigin(it) ==
    IF it.is_dict THEN <<it.path, IntOr0(it.start), it.title>> ELSE <<"", 0, <<>>>>

\* C10: the comments keep the order of their source: the parsed findings in the default
\* strategy, the composer's ids in id selection, the sidecar's items on the sidecar path
C10_OrderPreserved ==
    Emitted =>
        LET cs == out[1].comments
            origins == [i \in DOMAIN cs |-> CommentOrigin(cs[i])]
        IN  IF sidecar.kind # "absent"
            THEN IsSubseq(origins, [i \in DOMAIN sidecar.items |-> ItemOrigin(sidecar.items[i])])
            ELSE IF selected_ids = <<>>
            THEN IsSubseq(origins,
                          [i \in DOMAIN findings |->
                              <<findings[i].path, findings[i].start, findings[i].title>>])
            ELSE IsSubseq(CommentPlaces(cs),
                          [i \in DOMAIN composer_body.ids |-> IdPlace(composer_body.ids[i])])

C10_Witness ==
    /\ Emitted
    /\ sidecar.kind = "absent"
    /\ selected_ids = <<>>
    /\ Len(comments) = 2
    /\ comments[1].severity = "LOW"
    /\ comments[2].severity = "HIGH"

\* C11: rewriting the links of a rewritten text changes nothing, whatever the text,
\* the repository and the head revision, given or not
C11_Idempotent == pc = "relinked" => rewritten[2] = rewritten[1]

RECURSIVE Words(_)
\* the runs of characters between white space
Words(t) ==
    LET a == RunEnd(t, 1, IsSpace)
        b == RunEnd(t, a, LAMBDA c : ~IsSpace(c))
    IN  IF a > Len(t) THEN <<>> ELSE <<SubSeq(t, a, b - 1)>> \o Words(From(t, b))

Contains(t, p) == Find(t, 1, p) # 0

\* the revision a path of the repository is to be pinned to
TargetOf(path) == IF StartsWith(path, style_rel) THEN Chars("main") ELSE Chars(cfg.sha)

\* w is one blob URL of the repository: prefix, the revision its path is to have, the path
IsPinnedUrl(w) ==
    LET prefix == BlobPrefix(Chars(cfg.repo))
        slash == Find(w, Len(prefix) + 1, <<"/">>)
    IN  /\ StartsWith(w, prefix)
        /\ slash # 0
        /\ SubSeq(w, Len(prefix) + 1, slash - 1) = TargetOf(From(w, slash + 1))
        /\ ~Contains(From(w, slash + 1), Chars("://"))

Linked == pc \in {"linked", "relinked"} /\ cfg.repo # "" /\ cfg.sha # ""

\* C12: with a repository and a head revision, every relative reference of the text comes
\* out as one blob URL, pinned to main when its path is the style guide's and to the head
\* revision for every other path, docs/contribute/style-guide-extended.mdx included
C12_RelativeRefsPinned ==
    (Linked /\ ~Contains(link_input, Chars("://"))) =>
        \A i \in DOMAIN Words(rewritten[1]) :
            Contains(Words(rewritten[1])[i], Chars("#L")) => IsPinnedUrl(Words(rewritten[1])[i])

\* the blob URL w with its revision replaced by the one its path is to have
Repinned(w) ==
    LET prefix == BlobPrefix(Chars(cfg.repo))
        slash == Find(w, Len(prefix) + 1, <<"/">>)
    IN  prefix \o TargetOf(From(w, slash + 1)) \o From(w, slash)

\* C13: with a head revision, every blob URL of the repository in the text comes out as
\* the same URL with its revision replaced by the one its path is to have, and every
\* other word as it was
C13_AbsoluteRefsRepinned ==
    (Linked /\ \A i \in DOMAIN Words(link_input) :
                    Contains(Words(link_input)[i], <<".">>)
                        => StartsWith(Words(link_input)[i], BlobPrefix(Chars(cfg.repo)))) =>
        LET ins == Words(link_input)
            outs == Words(rewritten[1])
        IN  /\ Len(outs) = Len(ins)
            /\ \A i \in DOMAIN ins :
                 outs[i] = IF StartsWith(ins[i], BlobPrefix(Chars(cfg.repo)))
                           THEN Repinned(ins[i]) ELSE ins[i]

\* the number of lines of a file, NotFile when it cannot be read
LinesOf(path) == IF path \in DOMAIN files THEN files[path] ELSE NotFile

\* the findings of a list that do not start past the end of a readable file
NotPastEnd(list) ==
    SelectSeq(list, LAMBDA f : LinesOf(f.path) = NotFile \/ f.start <= LinesOf(f.path))

\* every validator message has been parsed
Parsed == read_instances /\ pc \in {"select", "cap", "render", "done"}

\* the blocks the validator messages were written from, in the order of the messages
WrittenBlocks == Flatten([i \in DOMAIN validator_messages |-> validator_messages[i].blocks])

\* the blocks of a list whose location has a path, a start from 1 on and an end not before it
WellLocated(bs) == SelectSeq(bs, LAMBDA b : b.path # "" /\ 1 <= b.start /\ b.start <= b.end)

\* C14: the findings parsed from the validator messages are, in order, the heading blocks
\* whose Location gives a path, start > 0 and end >= start (the end being the start when
\* the Location has no -Lend); any other block is left out without an error, and the
\* blocks before and after it are still found
C14_MalformedBlocksDropped ==
    /\ (instances # <<>> /\ \A i \in DOMAIN instances : instances[i].fm.md # <<>>)
            => pc # "failed"
    /\ Parsed =>
            LET good == WellLocated(WrittenBlocks)
            IN  /\ Len(findings) = Len(good)
                /\ \A i \in DOMAIN good :
                     /\ findings[i].path = good[i].path
                     /\ findings[i].start = good[i].start
                     /\ findings[i].end = good[i].end
                     /\ findings[i].title = good[i].title

C14_Witness ==
    /\ Parsed
    /\ Len(validator_messages) = 1
    /\ validator_messages[1].md # <<>>
    /\ Len(WrittenBlocks) = 3
    /\ WrittenBlocks[1].start = 1
    /\ WrittenBlocks[2].path = "a.mdx" /\ WrittenBlocks[2].start = 0
    /\ WrittenBlocks[3].path = "b.mdx" /\ WrittenBlocks[3].start = 2
    /\ ~Contains(validator_messages[1].md, Chars("#L2-"))
    /\ Len(findings) = 2
    /\ findings[2].end = 2

\* the suggestion block of a written body: the lines after the line that opens it, up to
\* the next line that is a fence
SuggestionBlock(written) ==
    LET lines == SplitLines(written)
        opens == {i \in DOMAIN lines : lines[i] = Fence \o Chars("suggestion")}
        i == CHOOSE k \in opens : \A m \in opens : k <= m
        closes == {j \in DOMAIN lines : j > i /\ lines[j] = Fence}
        j == CHOOSE k \in closes : \A m \in closes : k <= m
    IN  IF opens = {} \/ closes = {} THEN [present |-> FALSE, lines |-> <<>>]
        ELSE [present |-> TRUE, lines |-> SubSeq(lines, i + 1, j - 1)]

\* the body of a comment of the payload, as written
\* the revision handed to the link rewriting of the bodies
LinkSha == IF read_instances THEN cfg.sha ELSE SidecarLinkSha(sidecar, cfg.sha)

WrittenBody(c) == CommentBody(c, Chars(cfg.repo), Chars(LinkSha))

\* the number of lines a comment is placed on
RangeLength(c) == IF c.has_start THEN c.line - c.start_line + 1 ELSE 1

\* C15: in every payload, from a sidecar or from the per-agent records, the suggestion
\* block of a comment body is empty or has as many lines as the comment's range, which
\* is the range after clamping
C15_SuggestionCoversRange ==
    \A i \in DOMAIN out : \A j \in DOMAIN out[i].comments :
        LET c == out[i].comments[j]
            b == SuggestionBlock(WrittenBody(c))
        IN  b.present => b.lines = <<>> \/ Len(b.lines) = RangeLength(c)

C15_Witness ==
    /\ Emitted
    /\ read_instances
    /\ files["a.mdx"] = 2
    /\ Len(base_list) = 1
    /\ base_list[1].end = 3
    /\ Len(comments) = 1
    /\ comments[1].start_line = 1 /\ comments[1].line = 2
    /\ SuggestionBlock(WrittenBody(comments[1])).lines = <<Chars("l1"), Chars("l2")>>

\* one finding was written, selected and rendered: the payload has its comment
OneFindingRendered ==
    /\ Emitted
    /\ read_instances
    /\ Len(WrittenBlocks) = 1
    /\ Len(comments) = 1

\* C16: a finding on the single line k whose Suggestion section is one fenced block of
\* exactly one line, with no tag or a tag other than diff, gives, its severity being
\* selected, a comment with line k, no start_line, and a suggestion block holding
\* exactly that line
C16_SingleLineSuggestion ==
    (Emitted /\ read_instances /\ Len(WrittenBlocks) = 1) =>
        LET b == WrittenBlocks[1]
        IN  \A lang \in SuggLangs \ {Chars("diff")}, content \in OneLineContents :
                (/\ b.start = b.end
                 /\ b.sugg = FencedBlock(lang, content)
                 /\ b.severity \in cfg.include_sevs
                 /\ (LinesOf(b.path) = NotFile \/ b.start <= LinesOf(b.path)))
                    => /\ Len(comments) = 1
                       /\ comments[1].line = b.start
                       /\ ~comments[1].has_start
                       /\ SuggestionBlock(WrittenBody(comments[1]))
                            = [present |-> TRUE, lines |-> <<content>>]

\* a raw suggestion without the lines that are fence markers
WithoutFenceLines(raw) ==
    Strip(JoinLines(SelectSeq(SplitLines(raw), LAMBDA ln : ~StartsWith(ln, Fence))))

\* a line marked as removed and none marked as added
RemovesOnly(content) ==
    LET lines == SplitLines(content)
    IN  /\ \E i \in DOMAIN lines : Marked(Strip(lines[i]), "-")
        /\ ~\E i \in DOMAIN lines : Marked(Strip(lines[i]), "+")

C18_Clamping ==
    /\ \A i \in DOMAIN out : \A j \in DOMAIN out[i].comments :
            LET c == out[i].comments[j]
            IN  LinesOf(c.path) # NotFile => c.line <= LinesOf(c.path)
    /\ (Emitted /\ read_instances) =>
            LET kept == NotPastEnd(base_list)
            IN  /\ Len(comments) = Len(kept)
                /\ \A i \in DOMAIN kept :
                     /\ comments[i].path = kept[i].path
                     /\ CommentStart(comments[i]) = kept[i].start
                     /\ comments[i].line =
                            IF LinesOf(kept[i].path) = NotFile THEN kept[i].end
                            ELSE Min(kept[i].end, LinesOf(kept[i].path))

C18_Witness ==
    /\ Emitted
    /\ read_instances
    /\ files["a.mdx"] = 2
    /\ Len(base_list) = 2
    /\ base_list[1].start = 3
    /\ base_list[2].end = 3
    /\ Len(comments) = 1
    /\ comments[1].line = 2

\* the last trailer entry carrying an id, as trailer_by_uid keeps it
EntriesOf(uid) ==
    {i \in DOMAIN validator_trailer_findings : validator_trailer_findings[i].uid = uid}

\* an id resolves: its trailer entry has a path, start > 0, end >= start and a severity
\* among the requested ones; an empty severity counts as dflt
IdResolves(uid, dflt) ==
    /\ EntriesOf(uid) # {}
    /\ LET key == TrailerKey(validator_trailer_findings[LastIndex(EntriesOf(uid))])
       IN  /\ key[1] # "" /\ key[2] > 0 /\ key[3] >= key[2]
           /\ (IF key[4] = "" THEN dflt ELSE key[4]) \in cfg.include_sevs

\* the selected findings are those of the ids that resolve, one each, in the ids' order,
\* at the place the trailer gives and with the trailer's severity
SelectionFollowsIds(dflt) ==
    LET ids == SelectSeq(selected_ids, LAMBDA u : IdResolves(u, dflt))
    IN  /\ Len(selected) = Len(ids)
        /\ \A i \in DOMAIN ids :
             LET key == TrailerKey(validator_trailer_findings[LastIndex(EntriesOf(ids[i]))])
             IN  /\ <<selected[i].path, selected[i].start, selected[i].end>>
                        = <<key[1], key[2], key[3]>>
                 /\ selected[i].severity = IF key[4] = "" THEN dflt ELSE key[4]

IdsSelected == pc \in {"cap", "render", "done"} /\ read_instances /\ selected_ids # <<>>

\* C19 as stated: each id yields one finding at its trailer entry's place, in the ids'
\* order; an unknown id, or an entry with an empty severity, an empty path, start <= 0
\* or end < start, yields none
C19_EmptySeverityYieldsNothing == IdsSelected => SelectionFollowsIds("")

\* C19 amended: each id yields one finding at its trailer entry's place, in the ids' order;
\* an entry with an empty severity counts as HIGH; an unknown id, an entry with an empty
\* path, start <= 0 or end < start, or a severity that is not requested, yields none
C19_EmptySeverityIsHigh == IdsSelected => SelectionFollowsIds("HIGH")

C19_Witness ==
    /\ Emitted
    /\ selected_ids = <<"u2", "u1">>
    /\ EntriesOf("u2") # {}
    /\ validator_trailer_findings[LastIndex(EntriesOf("u2"))].severity = ""
    /\ Len(selected) = 2
    /\ selected[1].severity = "HIGH"
    /\ selected[1].title = SelectedFindingTitle
    /\ selected[2].title = TitleAB

CommentKey(c) == <<c.path, CommentStart(c), c.line, NormTitle(c.title)>>

\* C20 as stated: in every payload, whichever strategy built it, no two inline comments
\* have the same path, start, end and normalised title
C20_CommentKeysUnique ==
    \A p \in DOMAIN out : \A i, j \in DOMAIN out[p].comments :
        i # j => CommentKey(out[p].comments[i]) # CommentKey(out[p].comments[j])

\* C20 amended: in the default strategy no two findings handed to rendering have the same
\* path, start, end and normalised title, and neither have two comments on unreadable files
C20_DefaultKeysUnique ==
    (pc \in {"cap", "render", "done"} /\ read_instances /\ selected_ids = <<>>) =>
        /\ \A i, j \in DOMAIN selected :
             i # j => <<selected[i].path, selected[i].start, selected[i].end,
                        NormTitle(selected[i].title)>>
                      # <<selected[j].path, selected[j].start, selected[j].end,
                          NormTitle(selected[j].title)>>
        /\ \A i, j \in DOMAIN comments :
             (i # j /\ LinesOf(comments[i].path) = NotFile
                    /\ LinesOf(comments[j].path) = NotFile)
                => CommentKey(comments[i]) # CommentKey(comments[j])

C20_Witness ==
    /\ Emitted
    /\ read_instances
    /\ selected_ids = <<>>
    /\ Len(findings) = 2
    /\ findings[1].severity = findings[2].severity
    /\ findings[1].title # findings[2].title
    /\ NormTitle(findings[1].title) = NormTitle(findings[2].title)
    /\ Len(selected) = 1
    /\ Len(comments) = 1

\* every line of a text that is not blank is marked as removed
AllRemoved(content) ==
    \A ln \in Range(SplitLines(content)) : Strip(ln) = <<>> \/ Marked(Strip(ln), "-")

\* the suggestion block of a body is there and holds nothing
EmptyBlock(written) == SuggestionBlock(written) = [present |-> TRUE, lines |-> <<>>]

\* C21: a comment gets an empty suggestion block only when every line of the content of
\* its finding's suggestion (the fenced block, the text itself when there is none) is
\* marked as removed: a context line or a line of prose beside a line starting with '-'
\* gives no deletion
C21_DeletionOnlyWhenAllRemoved ==
    (OneFindingRendered /\ EmptyBlock(WrittenBody(comments[1]))) =>
        LET b == WrittenBlocks[1]
        IN  /\ \A pre \in SuggPres, lang \in SuggLangs, content \in SuggContents,
                  post \in SuggPosts :
                   b.sugg = Sugg(pre, lang, content, post) => AllRemoved(content)
            /\ \A p \in ProseSuggs : b.sugg = p => AllRemoved(p)

\* the suggestion block of a body is there and holds text
FilledBlock(written) ==
    SuggestionBlock(written).present /\ SuggestionBlock(written).lines # <<>>

\* the suggestion of a block is a fenced block with no tag or a tag that is not diff
NonDiffFenced(sugg) ==
    \E pre \in SuggPres, lang \in SuggLangs \ {Chars("diff")}, content \in SuggContents,
       post \in SuggPosts : sugg = Sugg(pre, lang, content, post)

\* a sidecar with one item was rendered: the payload has its comment
OneItemRendered ==
    /\ Emitted
    /\ ~read_instances
    /\ Len(sidecar.items) = 1
    /\ Len(comments) = 1

\* what the fences of a snippet enclose: the snippet itself when it has no fence
Enclosed(code) ==
    IF \E lang \in SuggLangs, content \in {DiffText, Chars("fixed line")} :
            code = FencedBlock(lang, content)
    THEN CHOOSE content \in {DiffText, Chars("fixed line")} :
            \E lang \in SuggLangs : code = FencedBlock(lang, content)
    ELSE code

\* the lines a diff leaves once applied: no header, no removed line, the added lines
\* without their mark; a text that is no diff is left as it is
AppliedLines(content) ==
    LET kept == SelectSeq(SplitLines(content),
                          LAMBDA ln : /\ ~StartsWith(ln, Chars("--- "))
                                      /\ ~StartsWith(ln, Chars("+++ "))
                                      /\ ~StartsWith(ln, Chars("@@"))
                                      /\ ~Marked(ln, "-"))
    IN  [i \in DOMAIN kept |-> IF Marked(kept[i], "+") THEN Tail(kept[i]) ELSE kept[i]]

\* C22 as stated: on both paths a suggestion block that holds text comes from a fenced
\* block with no tag or a tag that is not diff; what a diff-tagged block holds is never
\* the text of a suggestion block
C22_DiffNeverReplacement ==
    /\ (OneFindingRendered /\ FilledBlock(WrittenBody(comments[1])))
            => NonDiffFenced(WrittenBlocks[1].sugg)
    /\ (OneItemRendered /\ FilledBlock(WrittenBody(comments[1])))
            => \E lang \in SuggLangs \ {Chars("diff")}, content \in SuggContents :
                    sidecar.items[1].code = FencedBlock(lang, content)

\* C22 amended: on the per-agent-record path a suggestion block that holds text comes
\* from a fenced block with no tag or a tag that is not diff; on the sidecar path the
\* snippet of an item, what its first fenced block encloses whatever the tag, is the
\* source: a suggestion block holds its lines without diff headers and removed lines,
\* the added lines without their mark
C22_DiffNeverReplacementFromRecords ==
    /\ (OneFindingRendered /\ FilledBlock(WrittenBody(comments[1])))
            => NonDiffFenced(WrittenBlocks[1].sugg)
    /\ (OneItemRendered /\ SuggestionBlock(WrittenBody(comments[1])).present)
            => LET applied == AppliedLines(Enclosed(RStripNewlines(sidecar.items[1].code)))
                   lines == SuggestionBlock(WrittenBody(comments[1])).lines
               IN  /\ Len(lines) = Len(applied)
                   /\ ~Contains(sidecar.items[1].code, PlainAnchor) => lines = applied

C22_Witness ==
    /\ OneItemRendered
    /\ sidecar.items[1].code = FencedBlock(Chars("diff"), DiffText)
    /\ ~comments[1].has_start
    /\ SuggestionBlock(WrittenBody(comments[1])) = [present |-> TRUE, lines |-> <<Chars("new")>>]

\* one validator message given by its text, without a fence, has been parsed
TextParsed ==
    /\ Parsed
    /\ Len(validator_messages) = 1
    /\ validator_messages[1].md # <<>>
    /\ ~Contains(validator_messages[1].md, Fence)

\* the label a line starts with, leading blanks and case set aside: "none" without one
LabelOf(line) ==
    IF StartsWith(LowerStr(LStrip(line)), Chars("location:")) THEN "location"
    ELSE IF StartsWith(LowerStr(LStrip(line)), Chars("description:")) THEN "desc"
    ELSE IF StartsWith(LowerStr(LStrip(line)), Chars("suggestion:")) THEN "sugg"
    ELSE "none"

\* the lines that open a finding, in their order
HeadingsOf(lines) ==
    SelectSeq([i \in DOMAIN lines |-> i], LAMBDA i : StartsWith(lines[i], Chars("### [")))

\* the section open at line i under the heading at line h: that of the last label line
\* between them
OpenSection(lines, h, i) ==
    LET labels == {j \in (h + 1)..(i - 1) : LabelOf(lines[j]) # "none"}
    IN  IF labels = {} THEN "none" ELSE LabelOf(lines[LastIndex(labels)])

\* the lines without a label between the heading at line h and line n at which section
\* sec is open, in their order
SectionLines(lines, h, n, sec) ==
    LET at == SelectSeq([i \in DOMAIN lines |-> i],
                        LAMBDA i : /\ h < i /\ i < n
                                   /\ LabelOf(lines[i]) = "none"
                                   /\ OpenSection(lines, h, i) = sec)
    IN  [k \in DOMAIN at |-> lines[at[k]]]

\* the line at which the finding of the k-th heading ends
BlockEnd(lines, heads, k) == IF k < Len(heads) THEN heads[k + 1] ELSE Len(lines) + 1

\* C23: the description of a finding is made of the lines without a label under its
\* heading, up to the next heading, at which the Description section is open, in their
\* order, and its raw suggestion of those at which the Suggestion section is open; a
\* label line opens its section
C23_LinesGoToOpenSection ==
    TextParsed =>
        LET lines == SplitLines(validator_messages[1].md)
            heads == HeadingsOf(lines)
        IN  Len(findings) = Len(heads) =>
                \A k \in DOMAIN heads :
                    /\ findings[k].desc
                         = Strip(JoinLines(SectionLines(lines, heads[k],
                                                        BlockEnd(lines, heads, k), "desc")))
                    /\ findings[k].suggestion_raw
                         = Strip(JoinLines(SectionLines(lines, heads[k],
                                                        BlockEnd(lines, heads, k), "sugg")))

C23_Witness ==
    /\ TextParsed
    /\ Contains(validator_messages[1].md,
                Chars("#L1-L2\nDescription:\nzero\none\nSuggestion: use Y\ntwo\n###"))
    /\ Len(findings) = 2
    /\ findings[1].desc = Chars("zero\none")
    /\ findings[1].suggestion_raw = Chars("two")
    /\ findings[2].desc = Chars("two")

\* the role a record is routed by: the top-level one unless it is empty
ResolvedRole(r) == IF r.role # "" THEN r.role ELSE r.md_role

\* the record supplies findings text: a validator with a message, or a record that is
\* neither composer nor validator whose message ends in a fenced JSON trailer
SuppliesFindings(r) ==
    \/ ResolvedRole(r) = "validator" /\ HasMessage(r)
    \/ /\ ResolvedRole(r) \notin {"composer", "validator"}
       /\ r.fm.present
       /\ r.fm.trailer_kind # "none"

\* the records that are JSON objects, by their place
ObjectPlaces == SelectSeq([i \in DOMAIN instances |-> i], LAMBDA i : instances[i].is_dict)

\* C24: once the records are read, the summary is the message of the first composer
\* record that has one, the findings texts are the messages of the validator records and
\* of the records of another or no role that end in a JSON trailer, in the order of the
\* records, and nothing else is parsed: a composer message never is, whatever it ends in
C24_RoutedByRole ==
    (read_instances /\ pc \notin {"start", "classify"}) =>
        LET feeding == SelectSeq(ObjectPlaces, LAMBDA i : SuppliesFindings(instances[i]))
            composing == SelectSeq(ObjectPlaces,
                                   LAMBDA i : /\ ResolvedRole(instances[i]) = "composer"
                                              /\ HasMessage(instances[i]))
        IN  /\ validator_messages = [k \in DOMAIN feeding |-> instances[feeding[k]].fm]
            /\ composer_body = IF composing = <<>> THEN NoMessage
                               ELSE instances[composing[1]].fm
            /\ n_parse_calls \in {0, Len(feeding)}
            /\ pc \in {"select", "cap", "render", "done"} => n_parse_calls = Len(feeding)

C24_Witness ==
    /\ Emitted
    /\ Len(instances) = 2
    /\ instances[1].role = "composer" /\ instances[1].md_role = "validator"
    /\ instances[1].fm.trailer_kind = "ok" /\ instances[1].fm.blocks # <<>>
    /\ instances[2].role = "" /\ instances[2].md_role = ""
    /\ composer_body = instances[1].fm
    /\ validator_messages = <<instances[2].fm>>
    /\ n_parse_calls = 1
    /\ Len(findings) = 1
    /\ findings[1].severity = "MEDIUM"

\* a trailer entry that can give an id matches a finding on path, start, end, severity
\* and title
EntryMatches(e, f) ==
    /\ e.uid # ""
    /\ e.path = f.path /\ e.path # ""
    /\ IntOr0(e.start) = f.start /\ IntOr0(e.end) = f.end
    /\ UpperSev(e.severity) = f.severity
    /\ e.title = f.title

\* the entries of the trailer of one message
OwnTrailer(msg) == IF msg.trailer_kind = "ok" THEN msg.trailer ELSE <<>>

\* every message gave one finding: the i-th finding is that of the i-th message
OneFindingEach ==
    /\ Parsed
    /\ Len(findings) = Len(validator_messages)
    /\ \A i \in DOMAIN validator_messages : Len(validator_messages[i].blocks) = 1

\* C25 as stated: a finding has an id exactly when a trailer entry matches it, and the id
\* is the uid of a matching entry of the trailer of the message the finding was parsed from
C25_UidFromOwnTrailer ==
    OneFindingEach =>
        \A i \in DOMAIN findings :
            /\ findings[i].uid # None
                    <=> \E k \in DOMAIN validator_trailer_findings :
                            EntryMatches(validator_trailer_findings[k], findings[i])
            /\ findings[i].uid # None
                    => \E e \in Range(OwnTrailer(validator_messages[i])) :
                            EntryMatches(e, findings[i]) /\ e.uid = findings[i].uid

\* C25 amended: the trailers of all the validator messages are pooled in the order of
\* the messages; a finding has an id exactly when an entry of the pool matches it, and
\* the id is the uid of the last matching entry of the pool, whichever message it is from
C25_UidFromPooledTrailers ==
    Parsed =>
        /\ validator_trailer_findings
                = Flatten([i \in DOMAIN validator_messages |-> OwnTrailer(validator_messages[i])])
        /\ \A i \in DOMAIN findings :
                LET hits == {k \in DOMAIN validator_trailer_findings :
                                EntryMatches(validator_trailer_findings[k], findings[i])}
                IN  IF hits = {} THEN findings[i].uid = None
                    ELSE findings[i].uid = validator_trailer_findings[LastIndex(hits)].uid

C25_Witness ==
    /\ OneFindingEach
    /\ Len(validator_messages) = 2
    /\ validator_messages[1].trailer = <<>>
    /\ Len(validator_messages[2].trailer) = 1
    /\ validator_messages[2].blocks = <<B2>>
    /\ findings[1].uid = validator_messages[2].trailer[1].uid
    /\ findings[2].uid = None

\* the comment list computed in one go from the records, the files and the parameters
DefaultComments ==
    LET recs == IterInstanceJsons(instances)
    IN  RenderComments(
            Cap(SelectDefault(AllFindings(ValidatorMessages(recs),
                                          ValidatorTrailerFindings(recs)),
                              cfg.include_sevs),
                cfg.max_comments),
            files)

DefaultStrategy == read_instances /\ selected_ids = <<>>

BothWritten == pc = "written" /\ Len(rewritten) = 1 /\ Len(out) = 1

\* C27: for every text, repository and head revision the payload builder's link rewriting
\* returns the text the standalone rewriter writes, bare path?plain=1#L references included
C27_BuilderReplicatesStandalone == BothWritten => rewritten[1] = out[1]

\* the findings the ids resolve to, before any severity is looked at
ResolvedByIds ==
    Flatten([i \in DOMAIN selected_ids |->
                ResolveId(selected_ids[i], findings, validator_trailer_findings)])

SidecarEmitted == Emitted /\ ~read_instances /\ sidecar.kind = "object"

\* the items of the sidecar that have a place: a path, a title, start > 0, end >= start,
\* and a start that is not past the end of a readable file
PlacedItems == SelectSeq(sidecar.items, LAMBDA it : ItemRendered(it, files))

\* C28: with selected ids a resolved finding is kept exactly when its severity is
\* requested, so every comment of the per-agent-record path has a requested severity in
\* both strategies; the sidecar path gives every placed item its comment, whatever the
\* item's severity and the requested set
C28_SeverityFilterOnRecordsOnly ==
    /\ IdsSelected =>
          /\ selected = SelectSeq(ResolvedByIds, LAMBDA f : f.severity \in cfg.include_sevs)
          /\ \A i \in DOMAIN selected : selected[i].severity \in cfg.include_sevs
    /\ (read_instances /\ Emitted) =>
          \A i \in DOMAIN comments : comments[i].severity \in cfg.include_sevs
    /\ SidecarEmitted =>
          /\ Len(comments) = Len(PlacedItems)
          /\ \A i \in DOMAIN comments : comments[i].severity = ItemSeverity(PlacedItems[i])

C28_Witness ==
    /\ IdsSelected
    /\ Emitted
    /\ \E i \in DOMAIN ResolvedByIds : ResolvedByIds[i].severity \notin cfg.include_sevs
    /\ \E i \in DOMAIN ResolvedByIds : ResolvedByIds[i].severity \in cfg.include_sevs
    /\ comments # <<>>
    /\ Len(comments) < Len(ResolvedByIds)

\* a sidecar item with a severity outside the requested set has its comment
SidecarCommentOutsideRequested ==
    /\ SidecarEmitted
    /\ \E i \in DOMAIN comments : comments[i].severity \notin cfg.include_sevs

\* the summary body as written to the payload
WrittenSummary(b) == AbsolutizeLocationLinks(Chars(b), Chars(cfg.repo), Chars(LinkSha))

\* the revisions of the blob URLs of a text
RevisionsIn(t) ==
    {DocMatch(t, i, Chars(cfg.repo)).base :
        i \in {k \in Occurrences(t, 1, BlobPrefix(Chars(cfg.repo))) :
                  DocMatch(t, k, Chars(cfg.repo)).matched}}

\* the revisions of the links of the summary and of the comment bodies
PinnedRevisions ==
    RevisionsIn(WrittenSummary(out[1].body))
        \cup UNION {RevisionsIn(WrittenBody(comments[i])) : i \in DOMAIN comments}

SidecarWithLinks ==
    /\ SidecarEmitted
    /\ comments # <<>>
    /\ Contains(Chars(out[1].body), PlainAnchor)
    /\ Contains(comments[1].desc, PlainAnchor)

\* C29: on the sidecar path the links of the summary and of the comment bodies are pinned
\* to the payload's commit_id, which is the sidecar's commit id when it has one and the
\* head revision otherwise, a commit id of whitespace included
C29_LinksPinnedToCommitId ==
    (SidecarWithLinks /\ out[1].commit_id # None)
        => /\ PinnedRevisions = {Chars(out[1].commit_id)}
           /\ out[1].commit_id = (IF sidecar.commit_id # "" THEN sidecar.commit_id ELSE cfg.sha)

\* the same for the commit ids that carry no whitespace
C29_PinnedWhenNoWhitespace ==
    (SidecarWithLinks /\ out[1].commit_id # None /\ ~Contains(Chars(sidecar.commit_id), <<" ">>))
        => /\ PinnedRevisions = {Chars(out[1].commit_id)}
           /\ out[1].commit_id = (IF sidecar.commit_id # "" THEN sidecar.commit_id ELSE cfg.sha)

BlankCommitId ==
    /\ SidecarWithLinks
    /\ sidecar.commit_id = " "
    /\ out[1].commit_id = " "
    /\ PinnedRevisions = {Chars("s1")}

\* the place a Location line of the explored messages gives, <<>> when it gives none
PlaceOf(line) ==
    IF line = Chars("Location: a.mdx?plain=1#L1-L2") THEN <<"a.mdx", 1, 2>>
    ELSE IF line = Chars("Location: b.mdx#L2") THEN <<"b.mdx", 2, 2>>
    ELSE IF line = Chars("Location: b.mdx#L3") THEN <<"b.mdx", 3, 3>>
    ELSE <<>>

\* the lines strictly between h and n
Between(lines, h, n) == {i \in DOMAIN lines : h < i /\ i < n}

\* the texts that stand on a label line after the label
InlineTexts == {Chars("more"), Chars("use Y")}

\* C30: no text standing after a Description: or Suggestion: label on its own line is in
\* the description or the raw suggestion, whose lines are lines without a label of the
\* finding and as many as follow a Description: or Suggestion: label, those after a
\* Location: line left out; the finding is at the place of the last Location: line that
\* gives one
C30_LabelLineAndLocationTextDropped ==
    TextParsed =>
        LET lines == SplitLines(validator_messages[1].md)
            heads == HeadingsOf(lines)
        IN  Len(findings) = Len(heads) =>
                \A k \in DOMAIN heads :
                    LET inside == Between(lines, heads[k], BlockEnd(lines, heads, k))
                        plain == {i \in inside : LabelOf(lines[i]) = "none"}
                        kept == {i \in plain : OpenSection(lines, heads[k], i) \in {"desc", "sugg"}}
                        placed == {i \in inside : PlaceOf(lines[i]) # <<>>}
                        desc == SplitLines(findings[k].desc)
                        sugg == SplitLines(findings[k].suggestion_raw)
                    IN  /\ \A t \in InlineTexts :
                            /\ ~Contains(findings[k].desc, t)
                            /\ ~Contains(findings[k].suggestion_raw, t)
                        /\ Range(desc) \cup Range(sugg) \subseteq {lines[i] : i \in kept}
                        /\ Len(desc) + Len(sugg) = Cardinality(kept)
                        /\ placed # {}
                        /\ <<findings[k].path, findings[k].start, findings[k].end>>
                              = PlaceOf(lines[LastIndex(placed)])

C30_Witness ==
    /\ TextParsed
    /\ Contains(validator_messages[1].md,
                Chars("zero\nLocation: b.mdx#L2\none\nSuggestion: use Y\n###"))
    /\ Len(findings) = 2
    /\ <<findings[1].path, findings[1].start, findings[1].end>> = <<"b.mdx", 2, 2>>
    /\ findings[1].desc = Chars("zero")
    /\ findings[1].suggestion_raw = <<>>

====
